---- MODULE Spec2Model ----
(***************************************************************************)
(* A model of atbu.mp_pipeline.mp_pipeline: the MultiprocessingPipeline    *)
(* controller (_pl_worker), its caller API (submit, shutdown), the         *)
(* PipelineWorkItem merge (stage_complete) and the stage executions.        *)
(***************************************************************************)
EXTENDS Integers, Sequences, FiniteSets, TLC

\* ------------------------------------------------------------------ bounds
NumStages == 3
NumItems == 2
NumCallers == 2
MaxHandles == 3
MaxFaults == 1
MaxFrames == 3
MaxPayload == 2
NumUserAttrs == 2

RECURSIVE Sum(_, _)
Sum(f, S) == IF S = {} THEN 0 ELSE LET x == CHOOSE y \in S : TRUE IN f[x] + Sum(f, S \ {x})

Stages == 0 .. (NumStages - 1)
Items == 1 .. NumItems
Callers == 1 .. NumCallers
\* Python's None, as a work item (the shutdown sentinel) and as a missing Future.
None == 0
\* max_workers=None with processors to spare: a pool that always has a free worker
NoLimit == 0
NoFut == 0
\* The Future of the input queue, among the Futures the controller waits on.
InputFut == <<0, 0>>
FutIds == Items \X Stages

\* ------------------------------------------------------------------ state
VARIABLES
    pipes,                \* stage -> is_pipe_with_next_stage
    subproc,              \* stage -> is_subprocess
    callerThreads,        \* the threads that call submit and shutdown
    workItems,            \* the work items those threads have to submit
    cur_stage,            \* work item -> _cur_stage
    user_obj,             \* work item -> user_obj
    exceptions,           \* work item -> exceptions
    wi_to_wifut,          \* _wi_to_wifut: (work item or None, user Future), in insertion order
    wifuts,               \* the user Futures allocated so far
    pl_input_queue,       \* _pl_input_queue
    input_queue_fut,      \* _input_queue_fut: "none", "pending" or "done"
    pl_worker_future,     \* _pl_worker_future is not None
    plfut_to_wi,          \* _plfut_to_wi
    running_wi_contexts,  \* _running_wi_contexts, in insertion order
    fut_to_pipe_conn,     \* _fut_to_pipe_conn
    conn_closes,          \* how often each raw pipe connection was closed
    futs,                 \* the stage Futures and the copies they run on
    exec_shut,            \* which executors have been shut down
    was_graceful_shutdown,
    plPc,                 \* where _pl_worker is
    plEx,                 \* the exception _pl_worker ended with
    done_futs,            \* _pl_worker's done_futs still to handle
    pending_futs,         \* _pl_worker's pending_futs
    is_shutdown,          \* _pl_worker's is_shutdown
    wi_needing_attention, \* _pl_worker's wi_needing_attention
    callers,              \* each caller thread: its call and where it is
    predAns,              \* history: the last answer of each stage's predicate
    merged,               \* history: stages whose stage_complete was applied
    ran,                  \* history: stages submitted for each item, in order
    faults,               \* history: how many predicates and workers failed on each item
    pipe_io,              \* a PipeConnectionIO reader/writer pair and its Connection
    stage_call,           \* a call of PipelineWorkItem.stage_complete: its arguments and outcome
    stage_run,            \* a call of _submit_to_stage: the item, the worker's item and where it is
    start_method,         \* the start method of the process pools' workers: "fork" or "spawn"
    launched,             \* the process pools whose worker processes were started
    inherited,            \* (pool, pipe) whose worker processes hold the pipe's write end
    max_workers,          \* max_workers of each process pool, NoLimit if it has workers to spare
    pool_calls            \* history: process pool -> the executions submitted to it, in order

itemVars == <<cur_stage, user_obj, exceptions>>
cfgVars == <<pipes, subproc, callerThreads, workItems>>
tableVars == <<wi_to_wifut, wifuts>>
queueVars == <<pl_input_queue, input_queue_fut>>
trackVars == <<plfut_to_wi, running_wi_contexts, fut_to_pipe_conn, conn_closes>>
plVars == <<plPc, plEx, done_futs, pending_futs, is_shutdown, wi_needing_attention>>
histVars == <<predAns, merged, ran, faults>>
mpVars == <<start_method, launched, inherited, max_workers, pool_calls>>
pipelineVars == <<itemVars, cfgVars, mpVars, tableVars, queueVars, trackVars, plVars, histVars,
                  pl_worker_future, futs, exec_shut, was_graceful_shutdown, callers>>
vars == <<itemVars, cfgVars, mpVars, pipe_io, stage_call, stage_run, tableVars, queueVars, trackVars, plVars,
          histVars,
          pl_worker_future, futs, exec_shut, was_graceful_shutdown, callers>>

\* ------------------------------------------------------------------ errors
WorkerError(s) == <<"worker", s>>
CopyError(s) == <<"copy", s>>
PredicateError(s) == <<"predicate", s>>
PipelineResultIsNotPipelineWorkItem(s) == <<"notworkitem", s>>
PipelineLastStageError == <<"laststage", 0>>
InvalidStageError == <<"invalidstage", 0>>
NoFutureError == <<"nofuture", 0>>
StillRunningError == <<"stillrunning", 0>>
NoContextError == <<"nocontext", 0>>
AttributeError == <<"attribute", 0>>
RuntimeError == <<"runtime", 0>>
NoError == <<"none", 0>>

\* ------------------------------------------------------------------ pipe connection
PIPE_CONN_MSG_CMD_DATA == "data"
PIPE_CONN_MSG_CMD_DATA_FINAL == "data-final"
PIPE_CONN_MSG_DATA_CMDS == {PIPE_CONN_MSG_CMD_DATA, PIPE_CONN_MSG_CMD_DATA_FINAL}
\* "some other custom string for a custom message"
CustomCmd == "custom"
Cmds == PIPE_CONN_MSG_DATA_CMDS \cup {CustomCmd}

\* the data of a message: bytes of length 0 .. MaxPayload (told apart by length)
Payloads == {[i \in 1 .. n |-> n] : n \in 0 .. MaxPayload}

PipeConnectionMessage(cmd, data) == [cmd |-> cmd, data |-> data]

\* what the last call on an endpoint was and how it ended: the method, the
\* command and the length of the data it was given, the exception it raised,
\* the length it returned (write, write_eof) or the length of the bytes it
\* returned (read, recv_message)
NoCall == [op |-> "none", cmd |-> "", len |-> -1, exc |-> "none", n |-> -1]
Call(op, cmd, len, exc, n) == [op |-> op, cmd |-> cmd, len |-> len, exc |-> exc, n |-> n]

\* PipeConnectionIO.create_reader_writer_pair: the Connection (messages in
\* flight), _num_bytes and _eof of the writer and of the reader; history: the
\* messages sent, the messages received, whether reset_num_bytes was called,
\* the last call
NewPipe ==
    [conn |-> <<>>, w_num_bytes |-> 0, w_eof |-> FALSE, r_num_bytes |-> 0,
     r_eof |-> FALSE, sent |-> <<>>, received |-> <<>>, reset |-> FALSE,
     ret |-> NoCall]

\* a send_message that sends whatever the eof flag says
send_message_ignoring_eof(io, msg) ==
    [io EXCEPT !.conn = Append(@, msg),
               !.w_eof = @ \/ msg.cmd = PIPE_CONN_MSG_CMD_DATA_FINAL,
               !.w_num_bytes = @ + Len(msg.data),
               !.sent = Append(@, msg),
               !.ret = Call("send_message", msg.cmd, Len(msg.data), "none", -1)]

\* a send_message that counts the data of DATA and DATA_FINAL messages only
send_message_counting_data_cmds(io, msg) ==
    IF io.w_eof
    THEN [io EXCEPT !.ret = Call("send_message", msg.cmd, Len(msg.data),
                                 "PipeConnectionAlreadyEof", -1)]
    ELSE [io EXCEPT !.conn = Append(@, msg),
                    !.w_eof = @ \/ msg.cmd = PIPE_CONN_MSG_CMD_DATA_FINAL,
                    !.w_num_bytes = IF msg.cmd \in PIPE_CONN_MSG_DATA_CMDS
                                    THEN @ + Len(msg.data) ELSE @,
                    !.sent = Append(@, msg),
                    !.ret = Call("send_message", msg.cmd, Len(msg.data), "none", -1)]

\* PipeConnectionIO.send_message on the writer (raises PipeConnectionAlreadyEof
\* and sends nothing once eof)
send_message(io, msg) ==
    IF io.w_eof
    THEN [io EXCEPT !.ret = Call("send_message", msg.cmd, Len(msg.data),
                                 "PipeConnectionAlreadyEof", -1)]
    ELSE [io EXCEPT !.conn = Append(@, msg),
                    !.w_eof = @ \/ msg.cmd = PIPE_CONN_MSG_CMD_DATA_FINAL,
                    !.w_num_bytes = @ + Len(msg.data),
                    !.sent = Append(@, msg),
                    !.ret = Call("send_message", msg.cmd, Len(msg.data), "none", -1)]

\* PipeConnectionIO._write on the writer: send_message, then return len(buf)
_write(io, op, cmd, buf) ==
    LET r == send_message(io, PipeConnectionMessage(cmd, buf))
    IN  [r EXCEPT !.ret = Call(op, cmd, Len(buf), r.ret.exc,
                               IF r.ret.exc = "none" THEN Len(buf) ELSE -1)]

\* a write that sends a zero-length buffer like any other
write_sending_empty(io, buf) ==
    _write(io, "write", PIPE_CONN_MSG_CMD_DATA, buf)

\* PipeConnectionIO.write: a zero-length write is skipped and returns 0
write(io, buf) ==
    IF Len(buf) = 0
    THEN [io EXCEPT !.ret = Call("write", PIPE_CONN_MSG_CMD_DATA, 0, "none", 0)]
    ELSE _write(io, "write", PIPE_CONN_MSG_CMD_DATA, buf)

\* PipeConnectionIO.write_eof
write_eof(io, buf) ==
    IF io.w_eof
    THEN [io EXCEPT !.ret = Call("write_eof", PIPE_CONN_MSG_CMD_DATA_FINAL, Len(buf),
                                 "PipeConnectionAlreadyEof", -1)]
    ELSE _write(io, "write_eof", PIPE_CONN_MSG_CMD_DATA_FINAL, buf)

\* a recv_message that does not count the data of the final message
recv_message_not_counting_final(io) ==
    LET msg == Head(io.conn)
    IN  [io EXCEPT !.conn = Tail(@),
                   !.r_eof = @ \/ msg.cmd = PIPE_CONN_MSG_CMD_DATA_FINAL,
                   !.r_num_bytes = IF msg.cmd = PIPE_CONN_MSG_CMD_DATA_FINAL THEN @
                                   ELSE @ + Len(msg.data),
                   !.received = Append(@, msg),
                   !.ret = Call("recv_message", msg.cmd, -1, "none", Len(msg.data))]

\* PipeConnectionIO.recv_message on the reader, a message being in the Connection
recv_message(io) ==
    LET msg == Head(io.conn)
    IN  [io EXCEPT !.conn = Tail(@),
                   !.r_eof = @ \/ msg.cmd = PIPE_CONN_MSG_CMD_DATA_FINAL,
                   !.r_num_bytes = @ + Len(msg.data),
                   !.received = Append(@, msg),
                   !.ret = Call("recv_message", msg.cmd, -1, "none", Len(msg.data))]

\* a read that does not test the eof flag: it waits on the Connection, which
\* for an empty Connection is an EOFError or a wait without end
read_not_testing_eof(io) ==
    IF io.conn = <<>> THEN [io EXCEPT !.ret = Call("read", "", -1, "EOFError", -1)]
    ELSE LET r == recv_message(io)
         IN  [r EXCEPT !.ret = Call("read", r.ret.cmd, -1, "none", r.ret.n)]

\* PipeConnectionIO.read on the reader: bytes() and nothing received once eof;
\* else the data of the message received, which must be DATA or DATA_FINAL
read(io) ==
    IF io.r_eof THEN [io EXCEPT !.ret = Call("read", "", -1, "none", 0)]
    ELSE LET r == recv_message(io)
         IN  IF r.ret.cmd \notin PIPE_CONN_MSG_DATA_CMDS
             THEN [r EXCEPT !.ret = Call("read", r.ret.cmd, -1,
                                         "InvalidPipeConnectionMessage", -1)]
             ELSE [r EXCEPT !.ret = Call("read", r.ret.cmd, -1, "none", r.ret.n)]

\* PipeConnectionIO.reset_num_bytes on the writer ("w") or the reader ("r")
reset_num_bytes(io, side) ==
    IF side = "w"
    THEN [io EXCEPT !.w_num_bytes = 0, !.reset = TRUE,
                    !.ret = Call("reset_num_bytes", side, -1, "none", -1)]
    ELSE [io EXCEPT !.r_num_bytes = 0, !.reset = TRUE,
                    !.ret = Call("reset_num_bytes", side, -1, "none", -1)]

\* ------------------------------------------------------------------ helpers
NoStageFut == [st |-> "none", obj |-> 0, excs |-> <<>>, pipe |-> "none", pool |-> "none"]
IdleCaller == [pc |-> "idle", wi |-> None, res |-> "none"]

\* PipelineWorkItem.is_failed
is_failed(excs) == Len(excs) > 0

\* Future.done() of a stage Future or of the input queue Future
FutDone(f) ==
    IF f = InputFut THEN input_queue_fut = "done"
    ELSE futs[f].st \notin {"none", "running"}

\* dict.get on _wi_to_wifut: the user Future of key k, NoFut if k is no key
TableGet(tbl, k) ==
    IF \E i \in 1 .. Len(tbl) : tbl[i].wi = k
    THEN tbl[CHOOSE i \in 1 .. Len(tbl) : tbl[i].wi = k].fut
    ELSE NoFut

\* self._wi_to_wifut[k] = h: a present key keeps its place
TableSet(tbl, k, h) ==
    IF \E i \in 1 .. Len(tbl) : tbl[i].wi = k
    THEN [i \in 1 .. Len(tbl) |-> IF tbl[i].wi = k THEN [wi |-> k, fut |-> h] ELSE tbl[i]]
    ELSE Append(tbl, [wi |-> k, fut |-> h])

\* del self._wi_to_wifut[k]
TableDel(tbl, k) == SelectSeq(tbl, LAMBDA e : e.wi # k)

\* the position of wi's entry in _running_wi_contexts, 0 if it has none
CtxPos(rwc, wi) ==
    IF \E i \in 1 .. Len(rwc) : rwc[i].wi = wi
    THEN CHOOSE i \in 1 .. Len(rwc) : rwc[i].wi = wi
    ELSE 0

RemoveAt(seq, i) == SubSeq(seq, 1, i - 1) \o SubSeq(seq, i + 1, Len(seq))

RECURSIVE SeqToSet(_)
SeqToSet(seq) == IF seq = <<>> THEN {} ELSE {Head(seq)} \cup SeqToSet(Tail(seq))

\* MultiprocessingPipeline._is_wi_still_running
is_wi_still_running(rwc, wi) ==
    IF CtxPos(rwc, wi) = 0 THEN FALSE ELSE Len(rwc[CtxPos(rwc, wi)].ctxs) > 0

\* _pl_worker is not between the top of its loop and the end of an iteration: it
\* has not been launched, it is blocked in concurrent.futures.wait, or it has ended.
\* One iteration of the loop is taken as one step of the controller thread: the
\* other threads act between iterations.
PlBetweenIterations == plPc \in {"none", "wait", "done", "failed"}

\* MultiprocessingPipeline.__init__ but for the stages
InitController ==
    /\ wi_to_wifut = <<>>
    /\ wifuts = <<>>
    /\ pl_input_queue = <<>>
    /\ input_queue_fut = "none"
    /\ pl_worker_future = FALSE
    /\ plfut_to_wi = [f \in {} |-> None]
    /\ running_wi_contexts = <<>>
    /\ fut_to_pipe_conn = [f \in {} |-> <<0, 0>>]
    /\ conn_closes = [f \in FutIds |-> 0]
    /\ futs = [f \in FutIds |-> NoStageFut]
    /\ exec_shut = {}
    /\ was_graceful_shutdown = FALSE
    /\ plPc = "none"
    /\ plEx = NoError
    /\ done_futs = <<>>
    /\ pending_futs = {}
    /\ is_shutdown = FALSE
    /\ wi_needing_attention = {}
    /\ callers = [t \in Callers |-> IdleCaller]
    /\ predAns = [f \in FutIds |-> "none"]
    /\ merged = [w \in Items |-> {}]
    /\ ran = [w \in Items |-> <<>>]
    /\ faults = [w \in Items |-> 0]
    /\ launched = {}
    /\ inherited = {}
    /\ pool_calls = [p \in {"process_exec", "process_exec2"} |-> <<>>]
    /\ pipe_io = NewPipe

\* PipelineWorkItem.__init__: new work items
NewWorkItems ==
    /\ cur_stage = [w \in Items |-> 0]
    /\ user_obj = [w \in Items |-> 0]
    /\ exceptions = [w \in Items |-> <<>>]

\* MultiprocessingPipeline.__init__ but for the stages, and new work items
InitState == NewWorkItems /\ InitController

\* MultiprocessingPipeline.__init__, PipelineWorkItem.__init__: a pipeline of
\* NumStages stages, any of them asking for a pipe with the next, and new work items
InitPipeline ==
    /\ pipes \in [Stages -> BOOLEAN]
    /\ subproc = [s \in Stages |-> pipes[s] \/ (s > 0 /\ pipes[s - 1])]
    /\ InitState

\* the attributes a user adds to a work item; None is an attribute it has not
UserAttrs == 1 .. NumUserAttrs

\* PipelineWorkItem.__init__: the attributes of _OUR_ATTRIBUTES and the
\* attributes the user added (the rest of __dict__)
PipelineWorkItem(v, excs, flag, attrs) ==
    [cur_stage |-> v, user_obj |-> v, user_kwargs |-> v, exceptions |-> excs,
     pipe_conn |-> v, auto_copy_attr |-> flag, attrs |-> attrs]

\* a PipelineWorkItem instance inst with the attributes a stage worker can set;
\* user_obj is a reference to a payload object
WorkItemInstance(inst, k, obj, excs, conn) ==
    [inst |-> inst, cur_stage |-> k, user_obj |-> obj, exceptions |-> excs, pipe_conn |-> conn]

\* the payload objects of a call of _submit_to_stage: the caller's, its pickled
\* copy and one the stage worker makes
PayloadObjects == 1 .. 3

\* no call of _submit_to_stage under observation
NoStageRun ==
    [pc |-> "none", conn |-> "none", subprocess |-> FALSE,
     objects |-> [o \in PayloadObjects |-> 0],
     wi |-> WorkItemInstance(1, 0, 1, <<>>, "none"),
     given |-> WorkItemInstance(1, 0, 1, <<>>, "none"),
     arg |-> WorkItemInstance(1, 0, 1, <<>>, "none")]

\* no call of stage_complete under observation
NoStageCall ==
    [self |-> PipelineWorkItem(1, <<>>, TRUE, [k \in UserAttrs |-> None]),
     wi_is_self |-> TRUE,
     wi |-> PipelineWorkItem(1, <<>>, TRUE, [k \in UserAttrs |-> None]),
     ex |-> NoError, done |-> TRUE,
     out |-> PipelineWorkItem(1, <<>>, TRUE, [k \in UserAttrs |-> None])]

\* caller threads racing on one work item
Init ==
    /\ InitPipeline
    /\ start_method = "spawn"
    /\ max_workers = NoLimit
    /\ stage_call = NoStageCall
    /\ stage_run = NoStageRun
    /\ callerThreads = Callers
    /\ workItems = {1}

\* one caller thread with NumItems work items
InitItems ==
    /\ InitPipeline
    /\ start_method = "spawn"
    /\ max_workers = NoLimit
    /\ stage_call = NoStageCall
    /\ stage_run = NoStageRun
    /\ callerThreads = {1}
    /\ workItems = Items

\* ------------------------------------------------------------------ work item
\* PipelineWorkItem.append_exception
append_exception(excs, ex) == Append(excs, ex)

\* a stage_complete that merges the failures but leaves the payload as it was
stage_complete_keeping_payload(selfExcs, selfObj, wiIsSelf, wiExcs, wiObj, ex) ==
    LET afterEx == IF ex # NoError THEN append_exception(selfExcs, ex) ELSE selfExcs
        argExcs == IF wiIsSelf THEN afterEx ELSE wiExcs
    IN  [excs |-> IF is_failed(argExcs) THEN afterEx \o argExcs ELSE afterEx,
         obj |-> selfObj]

\* PipelineWorkItem.stage_complete on the item with (selfExcs, selfObj): wiIsSelf says
\* that the wi argument is the item itself (the controller passes wi=wi when the
\* Future failed), otherwise the wi argument carries (wiExcs, wiObj).
stage_complete(selfExcs, selfObj, wiIsSelf, wiExcs, wiObj, ex) ==
    LET afterEx == IF ex # NoError THEN append_exception(selfExcs, ex) ELSE selfExcs
        argExcs == IF wiIsSelf THEN afterEx ELSE wiExcs
        argObj == IF wiIsSelf THEN selfObj ELSE wiObj
    IN  [excs |-> IF is_failed(argExcs) THEN afterEx \o argExcs ELSE afterEx,
         obj |-> argObj]

\* a stage_complete that copies the user's attributes whatever _auto_copy_attr is
PipelineWorkItem_stage_complete_copying_always(self, wi_is_self, wi, ex) ==
    LET arg == IF wi_is_self THEN self ELSE wi
        r == stage_complete(self.exceptions, self.user_obj, wi_is_self,
                            arg.exceptions, arg.user_obj, ex)
    IN  [self EXCEPT !.exceptions = r.excs,
                     !.user_obj = r.obj,
                     !.attrs = [k \in UserAttrs |->
                                   IF arg.attrs[k] # None THEN arg.attrs[k] ELSE @[k]]]

\* PipelineWorkItem.stage_complete(stage_num, wi, ex) on the whole item self:
\* the failure list and user_obj as in stage_complete above, then the copy of
\* every attribute of wi that is not in _OUR_ATTRIBUTES when self._auto_copy_attr
PipelineWorkItem_stage_complete(self, wi_is_self, wi, ex) ==
    LET arg == IF wi_is_self THEN self ELSE wi
        r == stage_complete(self.exceptions, self.user_obj, wi_is_self,
                            arg.exceptions, arg.user_obj, ex)
    IN  [self EXCEPT !.exceptions = r.excs,
                     !.user_obj = r.obj,
                     !.attrs = IF self.auto_copy_attr
                               THEN [k \in UserAttrs |->
                                        IF arg.attrs[k] # None THEN arg.attrs[k] ELSE @[k]]
                               ELSE @]

\* the items stage_complete is called on (every value 1) and the items it is
\* given as results of a stage (every value 2)
SelfItems ==
    {PipelineWorkItem(1, excs, flag, attrs) :
        excs \in {<<>>, <<PredicateError(0)>>}, flag \in BOOLEAN,
        attrs \in [UserAttrs -> {None, 1}]}
ResultItems ==
    {PipelineWorkItem(2, excs, flag, attrs) :
        excs \in {<<>>, <<CopyError(0)>>}, flag \in BOOLEAN,
        attrs \in [UserAttrs -> {None, 2}]}

\* the calls of stage_complete _handle_completed_fut makes: with the result of
\* the stage and ex=None, or with the item itself and the exception
StageCalls ==
    {[self |-> self, wi_is_self |-> FALSE, wi |-> wi, ex |-> NoError, done |-> FALSE,
      out |-> self] : self \in SelfItems, wi \in ResultItems}
    \cup
    {[self |-> self, wi_is_self |-> TRUE, wi |-> self, ex |-> WorkerError(0),
      done |-> FALSE, out |-> self] : self \in SelfItems}

\* ------------------------------------------------------------------ tracking
\* MultiprocessingPipeline._track_running_pipeline_work, on _running_wi_contexts
TrackContexts(rwc, stage, fut, wi) ==
    LET ctx == [cur_stage |-> stage, fut |-> fut]
        p == CtxPos(rwc, wi)
    IN  IF p = 0 THEN Append(rwc, [wi |-> wi, ctxs |-> <<ctx>>])
        ELSE [rwc EXCEPT ![p].ctxs = Append(@, ctx)]

\* MultiprocessingPipeline._track_running_pipeline_work, on _plfut_to_wi
TrackFut(pfw, fut, wi) ==
    [f \in DOMAIN pfw \cup {fut} |-> IF f = fut THEN wi ELSE pfw[f]]

\* the position in a context list of the context of fut, 0 if there is none
FutPos(ctxs, fut) ==
    IF \E i \in 1 .. Len(ctxs) : ctxs[i].fut = fut
    THEN CHOOSE i \in 1 .. Len(ctxs) :
            /\ ctxs[i].fut = fut
            /\ \A j \in 1 .. (i - 1) : ctxs[j].fut # fut
    ELSE 0

\* a _get_completed_work_item_info that leaves the Future in _plfut_to_wi
get_completed_work_item_info_keeping_fut(pfw, rwc, fut) ==
    LET wi == pfw[fut]
        p == CtxPos(rwc, wi)
        q == IF p = 0 THEN 0 ELSE FutPos(rwc[p].ctxs, fut)
        left == IF q = 0 THEN rwc[p].ctxs ELSE RemoveAt(rwc[p].ctxs, q)
    IN  IF p = 0
        THEN [err |-> NoContextError, wi |-> wi, stage |-> 0, pfw |-> pfw, rwc |-> rwc]
        ELSE [err |-> NoError,
              wi |-> wi,
              stage |-> IF q = 0 THEN rwc[p].ctxs[Len(rwc[p].ctxs)].cur_stage
                        ELSE rwc[p].ctxs[q].cur_stage,
              pfw |-> pfw,
              rwc |-> IF left = <<>> THEN RemoveAt(rwc, p)
                      ELSE [rwc EXCEPT ![p].ctxs = left]]

\* MultiprocessingPipeline._get_completed_work_item_info: the tables after the
\* Future is untracked, its context, and the error raised when there is none.
get_completed_work_item_info(pfw, rwc, fut) ==
    LET wi == pfw[fut]
        pfw2 == [f \in DOMAIN pfw \ {fut} |-> pfw[f]]
        p == CtxPos(rwc, wi)
        q == IF p = 0 THEN 0 ELSE FutPos(rwc[p].ctxs, fut)
        left == IF q = 0 THEN rwc[p].ctxs ELSE RemoveAt(rwc[p].ctxs, q)
    IN  IF p = 0
        THEN [err |-> NoContextError, wi |-> wi, stage |-> 0, pfw |-> pfw2, rwc |-> rwc]
        ELSE [err |-> NoError,
              wi |-> wi,
              stage |-> IF q = 0 THEN rwc[p].ctxs[Len(rwc[p].ctxs)].cur_stage
                        ELSE rwc[p].ctxs[q].cur_stage,
              pfw |-> pfw2,
              rwc |-> IF left = <<>> THEN RemoveAt(rwc, p)
                      ELSE [rwc EXCEPT ![p].ctxs = left]]

\* a partition that hands out the done Futures of an item that has a Future
\* still pending
wi_futs_partition_returning_done(ctxs) ==
    LET ctx_futs == [i \in 1 .. Len(ctxs) |-> ctxs[i].fut]
        ctx_done_futs == {ctx_futs[i] : i \in {j \in 1 .. Len(ctxs) : FutDone(ctx_futs[j])}}
        ctx_pending_futs == SeqToSet(ctx_futs) \ ctx_done_futs
    IN  [done |-> SelectSeq(ctx_futs, LAMBDA f : f \in ctx_done_futs),
         pending |-> ctx_pending_futs,
         cleaned |-> ctx_done_futs]

\* a loop body that hands the Futures of a work item out latest stage first
wi_futs_partition_latest_first(ctxs) ==
    LET ctx_futs == [i \in 1 .. Len(ctxs) |-> ctxs[Len(ctxs) + 1 - i].fut]
        ctx_done_futs == {ctx_futs[i] : i \in {j \in 1 .. Len(ctxs) : FutDone(ctx_futs[j])}}
        ctx_pending_futs == SeqToSet(ctx_futs) \ ctx_done_futs
    IN  [done |-> IF ctx_pending_futs = {} THEN ctx_futs ELSE <<>>,
         pending |-> ctx_pending_futs,
         cleaned |-> ctx_done_futs]

\* the body of the for loop of _get_all_wi_futs, for the contexts of one work
\* item: all of its Futures are handed out as done when none is pending, and
\* only the pending ones, as pending, otherwise
wi_futs_partition(ctxs) ==
    LET ctx_futs == [i \in 1 .. Len(ctxs) |-> ctxs[i].fut]
        ctx_done_futs == {ctx_futs[i] : i \in {j \in 1 .. Len(ctxs) : FutDone(ctx_futs[j])}}
        ctx_pending_futs == SeqToSet(ctx_futs) \ ctx_done_futs
    IN  [done |-> IF ctx_pending_futs = {} THEN ctx_futs ELSE <<>>,
         pending |-> ctx_pending_futs,
         cleaned |-> ctx_done_futs]

\* MultiprocessingPipeline._get_all_wi_futs: done_futs, pending_futs and the
\* Futures whose pipe connection _cleanup_pipe_connections is called for.
RECURSIVE get_all_wi_futs(_)
get_all_wi_futs(rwc) ==
    IF rwc = <<>> THEN [done |-> <<>>, pending |-> {}, cleaned |-> {}]
    ELSE LET one == wi_futs_partition(Head(rwc).ctxs)
             rest == get_all_wi_futs(Tail(rwc))
         IN  [done |-> one.done \o rest.done,
              pending |-> one.pending \cup rest.pending,
              cleaned |-> one.cleaned \cup rest.cleaned]

\* a _cleanup_pipe_connections that closes the connection and leaves its entry
\* in _fut_to_pipe_conn
CleanupConns_keeping_entry(cleaned) ==
    /\ conn_closes' = [c \in FutIds |->
            IF \E f \in cleaned \cap DOMAIN fut_to_pipe_conn : fut_to_pipe_conn[f] = c
            THEN conn_closes[c] + 1 ELSE conn_closes[c]]
    /\ fut_to_pipe_conn' = fut_to_pipe_conn

\* MultiprocessingPipeline._cleanup_pipe_connections for a set of done Futures
CleanupConns(cleaned) ==
    /\ conn_closes' = [c \in FutIds |->
            IF \E f \in cleaned \cap DOMAIN fut_to_pipe_conn : fut_to_pipe_conn[f] = c
            THEN conn_closes[c] + 1 ELSE conn_closes[c]]
    /\ fut_to_pipe_conn' = [f \in DOMAIN fut_to_pipe_conn \ cleaned |-> fut_to_pipe_conn[f]]

\* ------------------------------------------------------------------ user Futures
\* Future.set_result / Future.set_exception on user Future h; sets counts the
\* calls, excs records the failure list the item has at the first of them
SetFut(wf, h, st, ex, excs) ==
    [wf EXCEPT ![h] = IF @.st = "pending"
                      THEN [@ EXCEPT !.st = st, !.ex = ex, !.sets = @ + 1, !.excs = excs]
                      ELSE [@ EXCEPT !.sets = @ + 1]]

\* a _set_wi_to_finished that leaves the item's entry in _wi_to_wifut
set_wi_to_finished_keeping_entry(rwc, tbl, wf, wi, excs) ==
    IF is_wi_still_running(rwc, wi)
    THEN [err |-> StillRunningError, tbl |-> tbl, wf |-> wf]
    ELSE IF TableGet(tbl, wi) = NoFut
    THEN [err |-> NoFutureError, tbl |-> tbl, wf |-> wf]
    ELSE [err |-> NoError,
          tbl |-> tbl,
          wf |-> SetFut(wf, TableGet(tbl, wi), "result", NoError, excs)]

\* a _set_wi_to_finished that completes a failed item's user Future with
\* set_exception of the first failure
set_wi_to_finished_raising(rwc, tbl, wf, wi, excs) ==
    IF is_wi_still_running(rwc, wi)
    THEN [err |-> StillRunningError, tbl |-> tbl, wf |-> wf]
    ELSE IF TableGet(tbl, wi) = NoFut
    THEN [err |-> NoFutureError, tbl |-> tbl, wf |-> wf]
    ELSE [err |-> NoError,
          tbl |-> TableDel(tbl, wi),
          wf |-> IF is_failed(excs)
                 THEN SetFut(wf, TableGet(tbl, wi), "exception", Head(excs), excs)
                 ELSE SetFut(wf, TableGet(tbl, wi), "result", NoError, excs)]

\* MultiprocessingPipeline._set_wi_to_finished: the error it raises (NoError if
\* none), and the table and user Futures after it.
set_wi_to_finished(rwc, tbl, wf, wi, excs) ==
    IF is_wi_still_running(rwc, wi)
    THEN [err |-> StillRunningError, tbl |-> tbl, wf |-> wf]
    ELSE IF TableGet(tbl, wi) = NoFut
    THEN [err |-> NoFutureError, tbl |-> tbl, wf |-> wf]
    ELSE [err |-> NoError,
          tbl |-> TableDel(tbl, wi),
          wf |-> SetFut(wf, TableGet(tbl, wi), "result", NoError, excs)]

\* MultiprocessingPipeline._fail_all_pending over the entries tbl of _wi_to_wifut:
\* the failure lists and user Futures after it, and the error it ends with (ex is
\* re-raised by the caller; appending to the None key raises AttributeError).
RECURSIVE fail_all_pending(_, _, _, _)
fail_all_pending(tbl, wf, excs, ex) ==
    IF tbl = <<>> THEN [wf |-> wf, excs |-> excs, err |-> ex]
    ELSE LET wi == Head(tbl).wi
             h == Head(tbl).fut
         IN  IF wf[h].st # "pending" THEN fail_all_pending(Tail(tbl), wf, excs, ex)
             ELSE IF wi = None THEN [wf |-> wf, excs |-> excs, err |-> AttributeError]
             ELSE fail_all_pending(Tail(tbl),
                                   SetFut(wf, h, "exception", ex,
                                          append_exception(excs[wi], ex)),
                                   [excs EXCEPT ![wi] = append_exception(@, ex)], ex)

\* ------------------------------------------------------------------ advancement
\* What a stage predicate (PipelineStage.is_for_stage) can do when asked.
PredOutcomes == {"true", "false", "raise"}

\* the answers a predicate can give: at most MaxFaults predicates and workers fail
PredAnswers == IF Sum(faults, Items) < MaxFaults THEN PredOutcomes ELSE {"true", "false"}

\* The executor _submit_to_stage hands the copy to.
PoolOf(s, use_second_pool) ==
    IF subproc[s] THEN (IF use_second_pool THEN "process_exec2" ELSE "process_exec")
    ELSE "thread_exec"

\* The walk of _handle_stages_for_wi over one item: its _cur_stage, its failure
\* list, the executions submitted (in order), the predicates' answers, the error
\* raised out of the walk.
WalkStart(wi) ==
    [cur |-> cur_stage[wi], excs |-> exceptions[wi], subs |-> <<>>,
     pa |-> [s \in Stages |-> "asknone"], err |-> NoError]

\* MultiprocessingPipeline._is_stage_for_work_item with the predicate answering a
is_stage_for_work_item(ws, s, a) ==
    [ws EXCEPT !.pa[s] = a,
               !.excs = IF a = "raise" THEN append_exception(@, PredicateError(s)) ELSE @]

\* return False paths that leave the stage index of a failed item where it is
RefusedStage_keeping_index(ws) == ws

\* return False paths that move the stage index of a failed item to 0
RefusedStage_rewinding(ws) ==
    IF is_failed(ws.excs) THEN [ws EXCEPT !.cur = 0] ELSE ws

\* the return False paths of _try_submit_to_stage / _try_submit_to_dual_stage_with_pipe
RefusedStage(ws) ==
    IF is_failed(ws.excs) THEN [ws EXCEPT !.cur = NumStages] ELSE ws

\* MultiprocessingPipeline._submit_to_stage, then the caller's increment_stage
\* (an executor that was shut down raises RuntimeError on submit)
submit_to_stage(ws, pipe, use_second_pool) ==
    IF ws.err # NoError THEN ws
    ELSE IF PoolOf(ws.cur, use_second_pool) \in exec_shut
    THEN [ws EXCEPT !.err = RuntimeError]
    ELSE [ws EXCEPT !.subs = Append(@, [stage |-> ws.cur, pipe |-> pipe,
                                        pool |-> PoolOf(ws.cur, use_second_pool)]),
                    !.cur = @ + 1]

\* a _try_submit_to_stage that submits whatever the predicate returns
try_submit_to_stage_unasked(ws) ==
    { LET asked == is_stage_for_work_item(ws, ws.cur, a)
      IN  IF a = "raise" THEN [ws |-> RefusedStage(asked), ret |-> FALSE]
          ELSE [ws |-> submit_to_stage(asked, "none", FALSE), ret |-> TRUE]
      : a \in PredAnswers }

\* MultiprocessingPipeline._try_submit_to_stage: the possible (walk, return value)
try_submit_to_stage(ws) ==
    { LET asked == is_stage_for_work_item(ws, ws.cur, a)
      IN  IF a # "true" THEN [ws |-> RefusedStage(asked), ret |-> FALSE]
          ELSE [ws |-> submit_to_stage(asked, "none", FALSE), ret |-> TRUE]
      : a \in PredAnswers }

\* a _try_submit_to_dual_stage_with_pipe that hands both halves to the first
\* process pool
try_submit_to_dual_stage_with_pipe_one_pool(ws) ==
    IF ws.cur = NumStages - 1
    THEN {[ws |-> [ws EXCEPT !.err = PipelineLastStageError], ret |-> FALSE]}
    ELSE UNION {
        LET asked1 == is_stage_for_work_item(ws, ws.cur, a1)
        IN  IF a1 # "true" THEN {[ws |-> RefusedStage(asked1), ret |-> FALSE]}
            ELSE { LET asked2 == is_stage_for_work_item(asked1, ws.cur + 1, a2)
                   IN  IF a2 # "true" THEN [ws |-> RefusedStage(asked2), ret |-> FALSE]
                       ELSE [ws |-> submit_to_stage(submit_to_stage(asked2, "w", FALSE),
                                                    "r", FALSE),
                             ret |-> TRUE]
                   : a2 \in PredAnswers }
        : a1 \in PredAnswers }

\* a pairing that runs the current stage by itself when the next stage refuses
try_submit_to_dual_stage_with_pipe_solo_on_refusal(ws) ==
    IF ws.cur = NumStages - 1
    THEN {[ws |-> [ws EXCEPT !.err = PipelineLastStageError], ret |-> FALSE]}
    ELSE UNION {
        LET asked1 == is_stage_for_work_item(ws, ws.cur, a1)
        IN  IF a1 # "true" THEN {[ws |-> RefusedStage(asked1), ret |-> FALSE]}
            ELSE { LET asked2 == is_stage_for_work_item(asked1, ws.cur + 1, a2)
                   IN  IF a2 = "raise" THEN [ws |-> RefusedStage(asked2), ret |-> FALSE]
                       ELSE IF a2 = "false"
                       THEN [ws |-> submit_to_stage(asked2, "none", FALSE), ret |-> TRUE]
                       ELSE [ws |-> submit_to_stage(submit_to_stage(asked2, "w", FALSE),
                                                    "r", TRUE),
                             ret |-> TRUE]
                   : a2 \in PredAnswers }
        : a1 \in PredAnswers }

\* MultiprocessingPipeline._try_submit_to_dual_stage_with_pipe
try_submit_to_dual_stage_with_pipe(ws) ==
    IF ws.cur = NumStages - 1
    THEN {[ws |-> [ws EXCEPT !.err = PipelineLastStageError], ret |-> FALSE]}
    ELSE UNION {
        LET asked1 == is_stage_for_work_item(ws, ws.cur, a1)
        IN  IF a1 # "true" THEN {[ws |-> RefusedStage(asked1), ret |-> FALSE]}
            ELSE { LET asked2 == is_stage_for_work_item(asked1, ws.cur + 1, a2)
                   IN  IF a2 # "true" THEN [ws |-> RefusedStage(asked2), ret |-> FALSE]
                       ELSE [ws |-> submit_to_stage(submit_to_stage(asked2, "w", FALSE),
                                                    "r", TRUE),
                             ret |-> TRUE]
                   : a2 \in PredAnswers }
        : a1 \in PredAnswers }

\* the while loop of _handle_stages_for_wi: the walks it can end with
RECURSIVE handle_stages_loop(_)
handle_stages_loop(ws) ==
    IF ~(ws.cur < NumStages) THEN {ws}
    ELSE UNION {
        IF r.ws.err # NoError \/ r.ret \/ is_failed(r.ws.excs) THEN {r.ws}
        ELSE handle_stages_loop([r.ws EXCEPT !.cur = @ + 1])
        : r \in (IF pipes[ws.cur] THEN try_submit_to_dual_stage_with_pipe(ws)
                 ELSE try_submit_to_stage(ws)) }

\* MultiprocessingPipeline._handle_stages_for_wi up to its _set_wi_to_finished:
\* the walks it can end with; invalid marks the early return of an invalid stage.
handle_stages_for_wi(wi) ==
    IF cur_stage[wi] < 0 \/ cur_stage[wi] > NumStages
    THEN {[ws |-> [WalkStart(wi) EXCEPT
                      !.excs = append_exception(@, InvalidStageError),
                      !.cur = NumStages],
           invalid |-> TRUE]}
    ELSE {[ws |-> ws, invalid |-> FALSE] : ws \in handle_stages_loop(WalkStart(wi))}

\* the tables after the submissions of a walk were tracked
RECURSIVE TrackAll(_, _, _)
TrackAll(rwc, subs, wi) ==
    IF subs = <<>> THEN rwc
    ELSE TrackAll(TrackContexts(rwc, Head(subs).stage, <<wi, Head(subs).stage>>, wi),
                  Tail(subs), wi)

SubOf(subs, s) == CHOOSE i \in 1 .. Len(subs) : subs[i].stage = s
SubStages(subs) == {subs[i].stage : i \in 1 .. Len(subs)}

\* ------------------------------------------------------------------ controller
\* the except clause of _pl_worker: _fail_all_pending, then the body ends with
\* the exception
PlRaise(ex, wf, excs) ==
    LET r == fail_all_pending(wi_to_wifut, wf, excs, ex)
    IN  /\ wifuts' = r.wf
        /\ exceptions' = r.excs
        /\ plEx' = r.err
        /\ plPc' = "failed"

\* a rearm that does not look at the queue
renew_input_queue_future_not_testing_qsize(q) == "pending"

\* MultiprocessingPipeline._renew_input_queue_future: a new Future, completed at
\* once if the queue is not empty (under _input_queue_lock)
renew_input_queue_future(q) == IF Len(q) > 0 THEN "done" ELSE "pending"

\* _pl_worker, top of the loop: partition, rearm the input queue Future
\* (_renew_input_queue_future), and either go on to handle or wait.
PlTop ==
    /\ plPc = "top"
    /\ LET p == get_all_wi_futs(running_wi_contexts)
           renewed == renew_input_queue_future(pl_input_queue)
           done == IF renewed = "done" THEN Append(p.done, InputFut) ELSE p.done
       IN  /\ CleanupConns(p.cleaned)
           /\ input_queue_fut' = renewed
           /\ done_futs' = done
           /\ pending_futs' = IF done = <<>> THEN p.pending \cup {InputFut} ELSE {}
           /\ plPc' = IF done = <<>> THEN "wait" ELSE "handle"
    /\ wi_needing_attention' = {}
    /\ UNCHANGED <<itemVars, cfgVars, mpVars, pipe_io, stage_call, stage_run, tableVars, pl_input_queue, plfut_to_wi,
                   running_wi_contexts, plEx, is_shutdown, histVars, pl_worker_future,
                   futs, exec_shut, was_graceful_shutdown, callers>>

\* _pl_worker, concurrent.futures.wait(FIRST_COMPLETED) returning, then the
\* second partition
PlWait ==
    /\ plPc = "wait"
    /\ \E f \in pending_futs : FutDone(f)
    /\ LET p == get_all_wi_futs(running_wi_contexts)
           done == IF input_queue_fut = "done" THEN Append(p.done, InputFut) ELSE p.done
       IN  /\ CleanupConns(p.cleaned)
           /\ done_futs' = done
           /\ pending_futs' = IF done = <<>> THEN p.pending \cup {InputFut} ELSE {}
           /\ plPc' = IF done = <<>> THEN "wait" ELSE "handle"
    /\ UNCHANGED <<itemVars, cfgVars, mpVars, pipe_io, stage_call, stage_run, tableVars, queueVars, plfut_to_wi,
                   running_wi_contexts, plEx, is_shutdown, wi_needing_attention,
                   histVars, pl_worker_future, futs, exec_shut,
                   was_graceful_shutdown, callers>>

\* an end of the for loop that sets the flag whenever the loop is over
PlHandled_flagging_always(rest, sd, attention) ==
    /\ done_futs' = rest
    /\ is_shutdown' = sd
    /\ wi_needing_attention' = attention
    /\ plPc' = IF rest # <<>> THEN "handle"
               ELSE IF sd THEN "done"
               ELSE IF attention = {} THEN "top" ELSE "attend"
    /\ was_graceful_shutdown' = IF rest = <<>> THEN TRUE ELSE was_graceful_shutdown

\* the end of _pl_worker's for loop over done_futs: leave the loop on shutdown
\* (was_graceful_shutdown = True), else go on to the items needing attention
PlHandled(rest, sd, attention) ==
    /\ done_futs' = rest
    /\ is_shutdown' = sd
    /\ wi_needing_attention' = attention
    /\ plPc' = IF rest # <<>> THEN "handle"
               ELSE IF sd THEN "done"
               ELSE IF attention = {} THEN "top" ELSE "attend"
    /\ was_graceful_shutdown' = IF rest = <<>> /\ sd THEN TRUE ELSE was_graceful_shutdown

\* a _handle_completed_fut that lets the exception of the stage worker out
\* (done_fut.result() in place of done_fut.exception())
handle_completed_fut_raises_reraising(f, info) ==
    IF info.err # NoError THEN info.err
    ELSE IF futs[f].st = "raised" THEN WorkerError(f[2])
    ELSE NoError

\* the exception _handle_completed_fut ends with for a Future of running work:
\* that of _get_completed_work_item_info, if any; the exception of the stage
\* worker is read with done_fut.exception() and handed to stage_complete
handle_completed_fut_raises(f, info) == info.err

\* a _handle_completed_fut that merges whatever the stage returned
handle_completed_fut_merging_any_result(f, info) ==
    LET wi == info.wi
    IN  IF futs[f].st = "raised"
        THEN stage_complete(exceptions[wi], user_obj[wi], TRUE, <<>>, 0,
                            WorkerError(f[2]))
        ELSE stage_complete(exceptions[wi], user_obj[wi], FALSE, futs[f].excs,
                            futs[f].obj, NoError)

\* MultiprocessingPipeline._handle_completed_fut for a Future of running work
handle_completed_fut(f, info) ==
    LET wi == info.wi
    IN  IF futs[f].st = "raised"
        THEN stage_complete(exceptions[wi], user_obj[wi], TRUE, <<>>, 0,
                            WorkerError(f[2]))
        ELSE IF futs[f].st = "notworkitem"
        THEN stage_complete(exceptions[wi], user_obj[wi], TRUE, <<>>, 0,
                            PipelineResultIsNotPipelineWorkItem(info.stage))
        ELSE stage_complete(exceptions[wi], user_obj[wi], FALSE, futs[f].excs,
                            futs[f].obj, NoError)

\* _pl_worker handling one done Future that is in _plfut_to_wi
PlHandleFut ==
    /\ plPc = "handle"
    /\ done_futs # <<>>
    /\ Head(done_futs) \in DOMAIN plfut_to_wi
    /\ LET f == Head(done_futs)
           info == get_completed_work_item_info(plfut_to_wi, running_wi_contexts, f)
           r == handle_completed_fut(f, info)
       IN  /\ plfut_to_wi' = info.pfw
           /\ running_wi_contexts' = info.rwc
           /\ IF handle_completed_fut_raises(f, info) # NoError
              THEN /\ PlRaise(handle_completed_fut_raises(f, info), wifuts, exceptions)
                   /\ UNCHANGED <<user_obj, merged, done_futs, is_shutdown,
                                  wi_needing_attention, was_graceful_shutdown>>
              ELSE /\ exceptions' = [exceptions EXCEPT ![info.wi] = r.excs]
                   /\ user_obj' = [user_obj EXCEPT ![info.wi] = r.obj]
                   /\ merged' = [merged EXCEPT ![info.wi] = @ \cup {info.stage}]
                   /\ PlHandled(Tail(done_futs), is_shutdown,
                                wi_needing_attention \cup {info.wi})
                   /\ UNCHANGED <<wifuts, plEx>>
    /\ futs' = [futs EXCEPT ![Head(done_futs)] = [@ EXCEPT !.st = "handled", !.obj = 0,
                                                             !.excs = <<>>]]
    /\ UNCHANGED <<cur_stage, cfgVars, mpVars, pipe_io, stage_call, stage_run, wi_to_wifut, queueVars, fut_to_pipe_conn,
                   conn_closes, pending_futs, predAns, ran, faults, pl_worker_future,
                   exec_shut, callers>>

\* a _get_queued_wi that takes the item put on the queue last
get_queued_wi_taking_last(q) ==
    [wi |-> q[Len(q)], is_shutdown |-> q[Len(q)] = None, queue |-> SubSeq(q, 1, Len(q) - 1)]

\* MultiprocessingPipeline._get_queued_wi on a queue that is not empty:
\* queue.Queue.get takes the item that was put first
get_queued_wi(q) ==
    [wi |-> Head(q), is_shutdown |-> Head(q) = None, queue |-> Tail(q)]

\* _pl_worker handling the input queue Future (or an unknown Future):
\* MultiprocessingPipeline._get_queued_wi
PlHandleQueue ==
    /\ plPc = "handle"
    /\ done_futs # <<>>
    /\ Head(done_futs) \notin DOMAIN plfut_to_wi
    /\ IF Len(pl_input_queue) = 0
       THEN /\ PlHandled(Tail(done_futs), is_shutdown, wi_needing_attention)
            /\ UNCHANGED pl_input_queue
       ELSE LET r == get_queued_wi(pl_input_queue)
            IN  /\ pl_input_queue' = r.queue
                /\ PlHandled(Tail(done_futs),
                             is_shutdown \/ r.is_shutdown,
                             IF r.wi = None THEN wi_needing_attention
                             ELSE wi_needing_attention \cup {r.wi})
    /\ UNCHANGED <<itemVars, cfgVars, mpVars, pipe_io, stage_call, stage_run, tableVars, input_queue_fut, trackVars, plEx,
                   pending_futs, histVars, pl_worker_future, futs, exec_shut, callers>>

\* a choice that advances a failed item like any other
attention_choice_ignoring_failure(rwc, excs, wi) ==
    IF is_wi_still_running(rwc, wi) THEN "continue" ELSE "advance"

\* a choice that does not wait for the item's running executions
attention_choice_not_waiting(rwc, excs, wi) ==
    IF is_failed(excs) THEN "finish" ELSE "advance"

\* _pl_worker's choice for an item needing attention: "continue" while it is
\* still running, "finish" when it failed, else "advance" (_handle_stages_for_wi)
attention_choice(rwc, excs, wi) ==
    IF is_wi_still_running(rwc, wi) THEN "continue"
    ELSE IF is_failed(excs) THEN "finish"
    ELSE "advance"

\* what attending to wi can come to: the walk of its stages, and whether
\* _set_wi_to_finished is called whatever is running (must) or only when nothing
\* is running and the stages are exhausted (may)
AttendOutcomes(wi) ==
    LET choice == attention_choice(running_wi_contexts, exceptions[wi], wi)
    IN  IF choice = "continue"
        THEN {[ws |-> WalkStart(wi), must |-> FALSE, may |-> FALSE]}
        ELSE IF choice = "finish"
        THEN {[ws |-> WalkStart(wi), must |-> TRUE, may |-> FALSE]}
        ELSE {[ws |-> o.ws, must |-> o.invalid, may |-> ~o.invalid /\ o.ws.err = NoError]
              : o \in handle_stages_for_wi(wi)}

\* the stage Future and the copy of the item made by _submit_to_stage
NewStageFut(wi, ws, sub) ==
    [st |-> "running", obj |-> user_obj[wi], excs |-> ws.excs,
     pipe |-> sub.pipe, pool |-> sub.pool]

\* the process pools of ProcessPoolExecutor; it starts the worker processes of a
\* pool when the pool is first submitted to
ProcessPools == {"process_exec", "process_exec2"}
NewPools(subs) == ({subs[i].pool : i \in 1 .. Len(subs)} \cap ProcessPools) \ launched

\* the write ends the controller's process has open when a walk submits subs for
\* wi: those of _fut_to_pipe_conn and the one multiprocessing.Pipe just made
OpenWriteEnds(subs, wi) ==
    {g \in DOMAIN fut_to_pipe_conn : futs[g].pipe = "w"}
    \cup {<<wi, subs[i].stage>> : i \in {j \in 1 .. Len(subs) : subs[j].pipe = "w"}}

\* a pool whose workers are forked by a submit inherits whatever the controller's
\* process has open; a spawned worker inherits nothing
ForkedWith(subs, wi) ==
    IF start_method = "fork" THEN NewPools(subs) \X OpenWriteEnds(subs, wi) ELSE {}

\* Executor.submit of the process pools: the calls of a walk join the call queue
\* of their pool in the order of submission
Called(calls, subs, wi) ==
    [p \in ProcessPools |->
        calls[p] \o SelectSeq([i \in 1 .. Len(subs) |-> <<wi, subs[i].stage>>],
                              LAMBDA g : subs[SubOf(subs, g[2])].pool = p)]

\* _pl_worker attending to one of wi_needing_attention
PlAttend ==
    /\ plPc = "attend"
    /\ \E wi \in wi_needing_attention :
       \E o \in AttendOutcomes(wi) :
         LET ws == o.ws
             stages == SubStages(ws.subs)
             rwc == TrackAll(running_wi_contexts, ws.subs, wi)
             dual == {s \in stages : ws.subs[SubOf(ws.subs, s)].pipe # "none"}
             paired == ws.err = NoError /\ dual # {}
             fin == o.must \/ (o.may /\ ~is_wi_still_running(rwc, wi)
                                     /\ ws.cur >= NumStages)
             f == IF fin THEN set_wi_to_finished(rwc, wi_to_wifut, wifuts, wi, ws.excs)
                  ELSE [err |-> NoError, tbl |-> wi_to_wifut, wf |-> wifuts]
             err == IF ws.err # NoError THEN ws.err ELSE f.err
             excs == [exceptions EXCEPT ![wi] = ws.excs]
             rest == wi_needing_attention \ {wi}
         IN  /\ cur_stage' = [cur_stage EXCEPT ![wi] = ws.cur]
             /\ futs' = [g \in FutIds |->
                            IF g[1] = wi /\ g[2] \in stages
                            THEN NewStageFut(wi, ws, ws.subs[SubOf(ws.subs, g[2])])
                            ELSE futs[g]]
             /\ plfut_to_wi' = [g \in DOMAIN plfut_to_wi \cup ({wi} \X stages) |->
                                   IF g[1] = wi /\ g[2] \in stages THEN wi
                                   ELSE plfut_to_wi[g]]
             /\ running_wi_contexts' = rwc
             /\ fut_to_pipe_conn' =
                   [g \in DOMAIN fut_to_pipe_conn \cup
                          (IF paired THEN {wi} \X dual ELSE {}) |->
                       IF paired /\ g[1] = wi /\ g[2] \in dual THEN g
                       ELSE fut_to_pipe_conn[g]]
             /\ predAns' = [g \in FutIds |->
                               IF g[1] = wi /\ ws.pa[g[2]] # "asknone" THEN ws.pa[g[2]]
                               ELSE predAns[g]]
             /\ ran' = [ran EXCEPT ![wi] = @ \o [i \in 1 .. Len(ws.subs) |-> ws.subs[i].stage]]
             /\ faults' = [faults EXCEPT ![wi] = @ + Cardinality({s \in Stages : ws.pa[s] = "raise"})]
             /\ wi_to_wifut' = f.tbl
             /\ launched' = launched \cup NewPools(ws.subs)
             /\ inherited' = inherited \cup ForkedWith(ws.subs, wi)
             /\ pool_calls' = Called(pool_calls, ws.subs, wi)
             /\ IF err # NoError
                THEN /\ PlRaise(err, f.wf, excs)
                     /\ UNCHANGED wi_needing_attention
                ELSE /\ wifuts' = f.wf
                     /\ exceptions' = excs
                     /\ wi_needing_attention' = rest
                     /\ plPc' = IF rest = {} THEN "top" ELSE "attend"
                     /\ UNCHANGED plEx
    /\ UNCHANGED <<user_obj, cfgVars, start_method, max_workers, pipe_io, stage_call, stage_run, queueVars, conn_closes, done_futs, pending_futs,
                   is_shutdown, merged, pl_worker_future, exec_shut,
                   was_graceful_shutdown, callers>>

\* ------------------------------------------------------------------ stage workers
\* What PipelineStage.perform_stage_work can end with on the copy it was given:
\* the copy returned with a new payload, the copy returned with its payload as it
\* came and a failure appended by the worker, an exception, or something that is
\* no work item.
WorkerOutcomes(f) ==
    { [futs[f] EXCEPT !.st = "ok", !.obj = f[2] + 1] } \cup
    ( IF Sum(faults, Items) < MaxFaults
      THEN { [futs[f] EXCEPT !.st = "ok", !.excs = append_exception(@, CopyError(f[2]))],
             [futs[f] EXCEPT !.st = "raised"],
             [futs[f] EXCEPT !.st = "notworkitem"] }
      ELSE {} )

\* a stage execution ends and its Future is settled by the executor
WorkerDone ==
    \E f \in FutIds :
        /\ PlBetweenIterations
        /\ futs[f].st = "running"
        /\ \E r \in WorkerOutcomes(f) :
              /\ futs' = [futs EXCEPT ![f] = r]
              /\ faults' = IF r.st = "ok" /\ r.excs = futs[f].excs THEN faults
                           ELSE [faults EXCEPT ![f[1]] = @ + 1]
        /\ UNCHANGED <<itemVars, cfgVars, mpVars, pipe_io, stage_call, stage_run, tableVars, queueVars, trackVars, plVars,
                       predAns, merged, ran, pl_worker_future, exec_shut,
                       was_graceful_shutdown, callers>>

\* ------------------------------------------------------------------ paired run
\* the write end of the pipe of writer execution g is open somewhere: the
\* controller's Connection (in _fut_to_pipe_conn until _cleanup_pipe_connections
\* closes it), the copy the running writer was given, or a copy that forked
\* pool workers hold
WriteEndOpen(g) ==
    \/ g \in DOMAIN fut_to_pipe_conn
    \/ futs[g].st = "running"
    \/ \E p \in ProcessPools : <<p, g>> \in inherited

\* the upstream stage of a paired run raises before it writes a frame
UpstreamRaises ==
    \E f \in FutIds :
        /\ PlBetweenIterations
        /\ futs[f].st = "running"
        /\ futs[f].pipe = "w"
        /\ futs' = [futs EXCEPT ![f].st = "raised"]
        /\ faults' = [faults EXCEPT ![f[1]] = @ + 1]
        /\ UNCHANGED <<itemVars, cfgVars, mpVars, pipe_io, stage_call, stage_run, tableVars, queueVars,
                       trackVars, plVars, predAns, merged, ran, pl_worker_future,
                       exec_shut, was_graceful_shutdown, callers>>

\* the downstream stage of that run calls PipeConnectionIO.read on a pipe nothing
\* was written to: Connection.recv blocks while a write end is open and raises
\* EOFError when none is, read returns bytes() and the stage returns its copy
DownstreamReads ==
    \E f \in FutIds :
        /\ PlBetweenIterations
        /\ futs[f].st = "running"
        /\ futs[f].pipe = "r"
        /\ ~WriteEndOpen(<<f[1], f[2] - 1>>)
        /\ futs' = [futs EXCEPT ![f].st = "ok", ![f].obj = f[2] + 1]
        /\ UNCHANGED <<itemVars, cfgVars, mpVars, pipe_io, stage_call, stage_run, tableVars, queueVars,
                       trackVars, plVars, histVars, pl_worker_future,
                       exec_shut, was_graceful_shutdown, callers>>

\* a stage execution that has no pipe ends
UnpairedWorkerDone ==
    \E f \in FutIds :
        /\ PlBetweenIterations
        /\ futs[f].st = "running"
        /\ futs[f].pipe = "none"
        /\ \E r \in WorkerOutcomes(f) :
              /\ futs' = [futs EXCEPT ![f] = r]
              /\ faults' = IF r.st = "ok" /\ r.excs = futs[f].excs THEN faults
                           ELSE [faults EXCEPT ![f[1]] = @ + 1]
        /\ UNCHANGED <<itemVars, cfgVars, mpVars, pipe_io, stage_call, stage_run, tableVars, queueVars,
                       trackVars, plVars, predAns, merged, ran, pl_worker_future,
                       exec_shut, was_graceful_shutdown, callers>>

\* ------------------------------------------------------------------ callers
\* user Futures allocated or about to be: the calls that are in _internal_submit
HandlesInUse ==
    Len(wifuts) + Cardinality({t \in Callers : callers[t].pc = "register"})

Return(t, res) == callers' = [callers EXCEPT ![t] = [IdleCaller EXCEPT !.res = res]]
Goto(t, pc, wi) == callers' = [callers EXCEPT ![t] = [pc |-> pc, wi |-> wi, res |-> "none"]]

\* MultiprocessingPipeline._start: launch _pl_worker on the thread pool unless it
\* was launched (_is_shutdown is never set, so its check never raises; a thread
\* pool that was shut down raises RuntimeError on submit)
start(t, wi) ==
    IF pl_worker_future
    THEN /\ Goto(t, "register", wi)
         /\ UNCHANGED <<pl_worker_future, plVars>>
    ELSE IF "thread_exec" \in exec_shut
    THEN /\ Return(t, "RuntimeError")
         /\ UNCHANGED <<pl_worker_future, plVars>>
    ELSE /\ Goto(t, "register", wi)
         /\ pl_worker_future' = TRUE
         /\ plPc' = "top"
         /\ plEx' = NoError
         /\ done_futs' = <<>>
         /\ pending_futs' = {}
         /\ is_shutdown' = FALSE
         /\ wi_needing_attention' = {}

\* the work items a caller may pass to submit: those submitted before, and of the
\* others (new items are alike) the one with the least number
NextItems ==
    {w \in workItems : \A v \in workItems : v < w => \E h \in 1 .. Len(wifuts) : wifuts[h].wi = v}

\* a submit without its checks of the argument
Submit_unchecked(t) ==
    /\ PlBetweenIterations
    /\ t \in callerThreads
    /\ callers[t].pc = "idle"
    /\ HandlesInUse < MaxHandles
    /\ \E w \in NextItems \cup {None} : start(t, w)
    /\ UNCHANGED <<itemVars, cfgVars, mpVars, pipe_io, stage_call, stage_run, tableVars, queueVars, trackVars, histVars, futs,
                   exec_shut, was_graceful_shutdown>>

\* MultiprocessingPipeline.submit: its checks of the argument, then
\* _internal_submit's call of _start
Submit(t) ==
    /\ PlBetweenIterations
    /\ t \in callerThreads
    /\ callers[t].pc = "idle"
    /\ HandlesInUse < MaxHandles
    /\ \E w \in NextItems \cup {None} :
        IF w = None \/ TableGet(wi_to_wifut, w) # NoFut
        THEN /\ Return(t, "InvalidFunctionArgument")
             /\ UNCHANGED <<pl_worker_future, plVars>>
        ELSE start(t, w)
    /\ UNCHANGED <<itemVars, cfgVars, mpVars, pipe_io, stage_call, stage_run, tableVars, queueVars, trackVars, histVars, futs,
                   exec_shut, was_graceful_shutdown>>

\* _internal_submit after _start: register a new user Future for the item
\* (self._wi_to_wifut[work_item] = wi_fut)
Register(t) ==
    /\ PlBetweenIterations
    /\ callers[t].pc = "register"
    /\ wifuts' = Append(wifuts, [st |-> "pending", ex |-> NoError, sets |-> 0,
                                 excs |-> <<>>, wi |-> callers[t].wi])
    /\ wi_to_wifut' = TableSet(wi_to_wifut, callers[t].wi, Len(wifuts) + 1)
    /\ Goto(t, "enqueue", callers[t].wi)
    /\ UNCHANGED <<itemVars, cfgVars, mpVars, pipe_io, stage_call, stage_run, queueVars, trackVars, plVars, histVars,
                   pl_worker_future, futs, exec_shut, was_graceful_shutdown>>

\* _internal_submit after the registration: put the item on the queue and, under
\* _input_queue_lock, complete the input queue Future; then return to submit's
\* caller or into shutdown
Enqueue(t) ==
    /\ PlBetweenIterations
    /\ callers[t].pc = "enqueue"
    /\ pl_input_queue' = Append(pl_input_queue, callers[t].wi)
    /\ input_queue_fut' = IF input_queue_fut = "pending" THEN "done" ELSE input_queue_fut
    /\ IF callers[t].wi # None THEN Return(t, "future") ELSE Goto(t, "join", None)
    /\ UNCHANGED <<itemVars, cfgVars, mpVars, pipe_io, stage_call, stage_run, tableVars, trackVars, plVars, histVars,
                   pl_worker_future, futs, exec_shut, was_graceful_shutdown>>

\* MultiprocessingPipeline.shutdown: nothing to do when no _pl_worker was launched
Shutdown(t) ==
    /\ PlBetweenIterations
    /\ t \in callerThreads
    /\ callers[t].pc = "idle"
    /\ IF ~pl_worker_future THEN Return(t, "returned") ELSE Goto(t, "drain", None)
    /\ UNCHANGED <<itemVars, cfgVars, mpVars, pipe_io, stage_call, stage_run, tableVars, queueVars, trackVars, plVars, histVars,
                   pl_worker_future, futs, exec_shut, was_graceful_shutdown>>

\* shutdown: the wait on _wi_to_fut_cond ends when _wi_to_wifut is empty; then
\* _internal_submit(None) calls _start
Drain(t) ==
    /\ PlBetweenIterations
    /\ callers[t].pc = "drain"
    /\ Len(wi_to_wifut) = 0
    /\ HandlesInUse < MaxHandles
    /\ start(t, None)
    /\ UNCHANGED <<itemVars, cfgVars, mpVars, pipe_io, stage_call, stage_run, tableVars, queueVars, trackVars, histVars, futs,
                   exec_shut, was_graceful_shutdown>>

\* shutdown: self._pl_worker_future.result() returns, or raises what _pl_worker raised
Join(t) ==
    /\ PlBetweenIterations
    /\ callers[t].pc = "join"
    /\ ~pl_worker_future \/ plPc \in {"done", "failed"}
    /\ IF ~pl_worker_future THEN Return(t, "AttributeError")
       ELSE IF plPc = "failed" THEN Return(t, "raised")
       ELSE Goto(t, "close", None)
    /\ UNCHANGED <<itemVars, cfgVars, mpVars, pipe_io, stage_call, stage_run, tableVars, queueVars, trackVars, plVars, histVars,
                   pl_worker_future, futs, exec_shut, was_graceful_shutdown>>

\* shutdown: self._pl_worker_future = None; self._process_exec.shutdown();
\* self._thread_exec.shutdown(), and return
Close(t) ==
    /\ PlBetweenIterations
    /\ callers[t].pc = "close"
    /\ pl_worker_future' = FALSE
    /\ exec_shut' = exec_shut \cup {"process_exec", "thread_exec"}
    /\ inherited' = {e \in inherited : e[1] \notin {"process_exec", "thread_exec"}}
    /\ Return(t, "returned")
    /\ UNCHANGED <<itemVars, cfgVars, start_method, launched, max_workers, pool_calls, pipe_io, stage_call, stage_run, tableVars, queueVars, trackVars, plVars, histVars,
                   futs, was_graceful_shutdown>>

\* ------------------------------------------------------------------ rearm and wake
\* The top of _pl_worker's loop and the end of _internal_submit in the steps
\* that other threads can come between.
\* _pl_worker: done_futs, pending_futs = self._get_all_wi_futs()
PlPartition ==
    /\ plPc = "top"
    /\ LET p == get_all_wi_futs(running_wi_contexts)
       IN  /\ CleanupConns(p.cleaned)
           /\ done_futs' = p.done
           /\ pending_futs' = p.pending
    /\ plPc' = "renew"
    /\ wi_needing_attention' = {}
    /\ UNCHANGED <<itemVars, cfgVars, mpVars, pipe_io, stage_call, stage_run, tableVars, queueVars,
                   plfut_to_wi, running_wi_contexts, plEx, is_shutdown, histVars,
                   pl_worker_future, futs, exec_shut, was_graceful_shutdown, callers>>

\* _pl_worker: self._renew_input_queue_future()
PlRenew ==
    /\ plPc = "renew"
    /\ input_queue_fut' = renew_input_queue_future(pl_input_queue)
    /\ plPc' = "check"
    /\ UNCHANGED <<itemVars, cfgVars, mpVars, pipe_io, stage_call, stage_run, tableVars, pl_input_queue,
                   trackVars, plEx, done_futs, pending_futs, is_shutdown,
                   wi_needing_attention, histVars, pl_worker_future, futs, exec_shut,
                   was_graceful_shutdown, callers>>

\* _pl_worker: if self._input_queue_fut.done(): done_futs.append(...), and into
\* the wait when done_futs is empty
PlCheck ==
    /\ plPc = "check"
    /\ LET done == IF input_queue_fut = "done" THEN Append(done_futs, InputFut)
                   ELSE done_futs
       IN  /\ done_futs' = done
           /\ pending_futs' = IF done = <<>> THEN pending_futs \cup {InputFut} ELSE {}
           /\ plPc' = IF done = <<>> THEN "wait" ELSE "handle"
    /\ UNCHANGED <<itemVars, cfgVars, mpVars, pipe_io, stage_call, stage_run, tableVars, queueVars,
                   trackVars, plEx, is_shutdown, wi_needing_attention, histVars,
                   pl_worker_future, futs, exec_shut, was_graceful_shutdown, callers>>

\* _internal_submit under _input_queue_lock: the input queue Future is completed
\* if there is one, it is not done and the queue is not empty
wake(q, fut) == IF Len(q) > 0 /\ fut = "pending" THEN "done" ELSE fut

\* _internal_submit: self._pl_input_queue.put(work_item)
Put(t) ==
    /\ callers[t].pc = "enqueue"
    /\ pl_input_queue' = Append(pl_input_queue, callers[t].wi)
    /\ Goto(t, "wake", callers[t].wi)
    /\ UNCHANGED <<itemVars, cfgVars, mpVars, pipe_io, stage_call, stage_run, tableVars, input_queue_fut,
                   trackVars, plVars, histVars, pl_worker_future, futs, exec_shut,
                   was_graceful_shutdown>>

\* _internal_submit: the block under _input_queue_lock, and the return
Wake(t) ==
    /\ callers[t].pc = "wake"
    /\ input_queue_fut' = wake(pl_input_queue, input_queue_fut)
    /\ IF callers[t].wi # None THEN Return(t, "future") ELSE Goto(t, "join", None)
    /\ UNCHANGED <<itemVars, cfgVars, mpVars, pipe_io, stage_call, stage_run, tableVars, pl_input_queue,
                   trackVars, plVars, histVars, pl_worker_future, futs, exec_shut,
                   was_graceful_shutdown>>

\* ------------------------------------------------------------------ pipe users
\* the producer calls send_message with a message of any command
ChSendMessage ==
    /\ Len(pipe_io.sent) < MaxFrames
    /\ \E cmd \in Cmds : \E data \in Payloads :
          pipe_io' = send_message(pipe_io, PipeConnectionMessage(cmd, data))
    /\ UNCHANGED <<pipelineVars, stage_call, stage_run>>

\* the producer calls write
ChWrite ==
    /\ Len(pipe_io.sent) < MaxFrames
    /\ \E buf \in Payloads : pipe_io' = write(pipe_io, buf)
    /\ UNCHANGED <<pipelineVars, stage_call, stage_run>>

\* the producer calls write_eof
ChWriteEof ==
    /\ Len(pipe_io.sent) < MaxFrames
    /\ \E buf \in Payloads : pipe_io' = write_eof(pipe_io, buf)
    /\ UNCHANGED <<pipelineVars, stage_call, stage_run>>

\* the consumer calls recv_message, which returns when a message is there
ChRecvMessage ==
    /\ pipe_io.conn # <<>>
    /\ pipe_io' = recv_message(pipe_io)
    /\ UNCHANGED <<pipelineVars, stage_call, stage_run>>

\* the consumer calls read, which returns at once when eof, else when a message
\* is there
ChRead ==
    /\ pipe_io.r_eof \/ pipe_io.conn # <<>>
    /\ pipe_io' = read(pipe_io)
    /\ UNCHANGED <<pipelineVars, stage_call, stage_run>>

\* either end calls reset_num_bytes
ChReset ==
    /\ \E side \in {"w", "r"} : pipe_io' = reset_num_bytes(pipe_io, side)
    /\ UNCHANGED <<pipelineVars, stage_call, stage_run>>

\* ------------------------------------------------------------------ stage_complete
\* the controller calls stage_complete on an item
StageComplete ==
    /\ ~stage_call.done
    /\ stage_call' = [stage_call EXCEPT
                         !.done = TRUE,
                         !.out = PipelineWorkItem_stage_complete(stage_call.self,
                                     stage_call.wi_is_self, stage_call.wi, stage_call.ex)]
    /\ UNCHANGED <<pipelineVars, pipe_io, stage_run>>

\* ------------------------------------------------------------------ specification
Next ==
    \/ PlTop
    \/ PlWait
    \/ PlHandleFut
    \/ PlHandleQueue
    \/ PlAttend
    \/ WorkerDone
    \/ \E t \in Callers : Submit(t)
    \/ \E t \in Callers : Register(t)
    \/ \E t \in Callers : Enqueue(t)
    \/ \E t \in Callers : Shutdown(t)
    \/ \E t \in Callers : Drain(t)
    \/ \E t \in Callers : Join(t)
    \/ \E t \in Callers : Close(t)

Spec == Init /\ [][Next]_vars

SpecItems == InitItems /\ [][Next]_vars

\* calls of stage_complete on work items of every kind, no pipeline running
InitStageComplete ==
    /\ InitPipeline
    /\ start_method = "spawn"
    /\ max_workers = NoLimit
    /\ \A s \in Stages : ~pipes[s]
    /\ callerThreads = {}
    /\ workItems = {}
    /\ stage_call \in StageCalls
    /\ stage_run = NoStageRun

NextStageComplete == StageComplete

SpecStageComplete == InitStageComplete /\ [][NextStageComplete]_vars

\* one caller thread with NumItems work items on a pipeline whose first stage,
\* and no other, asks for a pipe with the next, under either start method; every upstream
\* stage raises before it writes and every downstream stage reads
InitPaired ==
    /\ InitPipeline
    /\ pipes = [s \in Stages |-> s = 0]
    /\ start_method \in {"fork", "spawn"}
    /\ max_workers = NoLimit
    /\ stage_call = NoStageCall
    /\ stage_run = NoStageRun
    /\ callerThreads = {1}
    /\ workItems = Items

NextPaired ==
    \/ PlTop
    \/ PlWait
    \/ PlHandleFut
    \/ PlHandleQueue
    \/ PlAttend
    \/ UpstreamRaises
    \/ DownstreamReads
    \/ UnpairedWorkerDone
    \/ \E t \in Callers : Submit(t)
    \/ \E t \in Callers : Register(t)
    \/ \E t \in Callers : Enqueue(t)
    \/ \E t \in Callers : Shutdown(t)
    \/ \E t \in Callers : Drain(t)
    \/ \E t \in Callers : Join(t)
    \/ \E t \in Callers : Close(t)

SpecPaired == InitPaired /\ [][NextPaired]_vars

\* the controller thread, the pools' workers and the caller thread all get to run
FairSpecPaired == SpecPaired /\ WF_vars(NextPaired)

\* caller threads racing on one work item on a pipeline without pipes; the
\* rearm of the controller and the wake of the callers in separate steps
InitWake ==
    /\ InitPipeline
    /\ pipes = [s \in Stages |-> FALSE]
    /\ start_method = "spawn"
    /\ max_workers = NoLimit
    /\ stage_call = NoStageCall
    /\ stage_run = NoStageRun
    /\ callerThreads = Callers
    /\ workItems = {1}

NextWake ==
    \/ PlPartition
    \/ PlRenew
    \/ PlCheck
    \/ PlWait
    \/ PlHandleFut
    \/ PlHandleQueue
    \/ PlAttend
    \/ WorkerDone
    \/ \E t \in Callers : Submit(t)
    \/ \E t \in Callers : Register(t)
    \/ \E t \in Callers : Put(t)
    \/ \E t \in Callers : Wake(t)
    \/ \E t \in Callers : Shutdown(t)
    \/ \E t \in Callers : Drain(t)
    \/ \E t \in Callers : Join(t)
    \/ \E t \in Callers : Close(t)

SpecWake == InitWake /\ [][NextWake]_vars

\* the controller thread and the caller threads all get to run
FairSpecWake == SpecWake /\ WF_vars(NextWake)

\* ------------------------------------------------------------------ bounded pools
\* The pools of ProcessPoolExecutor with max_workers workers each: a pool's
\* workers take the calls off its call queue in the order of submission, each
\* worker one call at a time. A call has a worker when fewer than max_workers
\* unfinished calls of its pool were submitted before it; the thread pool starts
\* a thread for every call.
MaxWorkers == 1

CallPos(calls, f) == CHOOSE i \in 1 .. Len(calls) : calls[i] = f

HasWorker(f) ==
    \/ futs[f].pool \notin ProcessPools
    \/ max_workers = NoLimit
    \/ LET calls == pool_calls[futs[f].pool]
       IN  Cardinality({i \in 1 .. CallPos(calls, f) - 1 : futs[calls[i]].st = "running"})
              < max_workers

\* the upstream stage of a paired run ends; it writes more than the pipe holds,
\* so it is blocked in Connection.send until its downstream stage reads
PoolUpstreamDone ==
    \E f \in FutIds :
        /\ PlBetweenIterations
        /\ futs[f].st = "running"
        /\ futs[f].pipe = "w"
        /\ HasWorker(f)
        /\ futs[<<f[1], f[2] + 1>>].st = "running" => HasWorker(<<f[1], f[2] + 1>>)
        /\ \E r \in WorkerOutcomes(f) :
              /\ futs' = [futs EXCEPT ![f] = r]
              /\ faults' = IF r.st = "ok" /\ r.excs = futs[f].excs THEN faults
                           ELSE [faults EXCEPT ![f[1]] = @ + 1]
        /\ UNCHANGED <<itemVars, cfgVars, mpVars, pipe_io, stage_call, stage_run, tableVars, queueVars,
                       trackVars, plVars, predAns, merged, ran, pl_worker_future,
                       exec_shut, was_graceful_shutdown, callers>>

\* the downstream stage of a paired run, once it has a worker, reads until
\* Connection.recv raises EOFError, which it does when no write end is open
PoolDownstreamDone ==
    \E f \in FutIds :
        /\ PlBetweenIterations
        /\ futs[f].st = "running"
        /\ futs[f].pipe = "r"
        /\ HasWorker(f)
        /\ ~WriteEndOpen(<<f[1], f[2] - 1>>)
        /\ futs' = [futs EXCEPT ![f].st = "ok", ![f].obj = f[2] + 1]
        /\ UNCHANGED <<itemVars, cfgVars, mpVars, pipe_io, stage_call, stage_run, tableVars, queueVars,
                       trackVars, plVars, histVars, pl_worker_future,
                       exec_shut, was_graceful_shutdown, callers>>

\* a stage execution that has no pipe ends once it has a worker
PoolSoloDone ==
    \E f \in FutIds :
        /\ PlBetweenIterations
        /\ futs[f].st = "running"
        /\ futs[f].pipe = "none"
        /\ HasWorker(f)
        /\ \E r \in WorkerOutcomes(f) :
              /\ futs' = [futs EXCEPT ![f] = r]
              /\ faults' = IF r.st = "ok" /\ r.excs = futs[f].excs THEN faults
                           ELSE [faults EXCEPT ![f[1]] = @ + 1]
        /\ UNCHANGED <<itemVars, cfgVars, mpVars, pipe_io, stage_call, stage_run, tableVars, queueVars,
                       trackVars, plVars, predAns, merged, ran, pl_worker_future,
                       exec_shut, was_graceful_shutdown, callers>>

\* one caller thread with NumItems work items on a pipeline of subprocess stages
\* whose first stage asks for a pipe with the second, its pools of MaxWorkers
\* workers each
InitPools ==
    /\ pipes = [s \in Stages |-> s = 0]
    /\ subproc = [s \in Stages |-> TRUE]
    /\ InitState
    /\ start_method = "spawn"
    /\ max_workers = MaxWorkers
    /\ stage_call = NoStageCall
    /\ stage_run = NoStageRun
    /\ callerThreads = {1}
    /\ workItems = Items

NextPools ==
    \/ PlTop
    \/ PlWait
    \/ PlHandleFut
    \/ PlHandleQueue
    \/ PlAttend
    \/ PoolUpstreamDone
    \/ PoolDownstreamDone
    \/ PoolSoloDone
    \/ \E t \in Callers : Submit(t)
    \/ \E t \in Callers : Register(t)
    \/ \E t \in Callers : Enqueue(t)
    \/ \E t \in Callers : Shutdown(t)
    \/ \E t \in Callers : Drain(t)
    \/ \E t \in Callers : Join(t)
    \/ \E t \in Callers : Close(t)

SpecPools == InitPools /\ [][NextPools]_vars

\* the controller thread, the pools' workers and the caller thread all get to run
FairSpecPools == SpecPools /\ WF_vars(NextPools)

\* ------------------------------------------------------------------ racing starts
\* MultiprocessingPipeline.submit up to _start's test of _pl_worker_future, which
\* no lock protects: the checks of the argument, the check of _is_shutdown (never
\* set) and the test; each caller thread has a work item of its own
SubmitCheck(t) ==
    /\ PlBetweenIterations
    /\ t \in callerThreads
    /\ callers[t].pc = "idle"
    /\ HandlesInUse + Cardinality({u \in Callers : callers[u].pc = "launch"}) < MaxHandles
    /\ \E w \in (workItems \cap {t}) \cup {None} :
        IF w = None \/ TableGet(wi_to_wifut, w) # NoFut
        THEN Return(t, "InvalidFunctionArgument")
        ELSE IF pl_worker_future THEN Goto(t, "register", w)
        ELSE Goto(t, "launch", w)
    /\ UNCHANGED <<itemVars, cfgVars, mpVars, pipe_io, stage_call, stage_run, tableVars, queueVars,
                   trackVars, plVars, histVars, pl_worker_future, futs, exec_shut,
                   was_graceful_shutdown>>

\* _start after the test: self._pl_worker_future = self._thread_exec.submit(
\* MultiprocessingPipeline._pl_worker, self). The variables of _pl_worker follow
\* the body that was launched first.
Launch(t) ==
    /\ PlBetweenIterations
    /\ callers[t].pc = "launch"
    /\ IF "thread_exec" \in exec_shut
       THEN /\ Return(t, "RuntimeError")
            /\ UNCHANGED <<pl_worker_future, plVars>>
       ELSE /\ Goto(t, "register", callers[t].wi)
            /\ pl_worker_future' = TRUE
            /\ IF pl_worker_future
               THEN UNCHANGED plVars
               ELSE /\ plPc' = "top"
                    /\ plEx' = NoError
                    /\ done_futs' = <<>>
                    /\ pending_futs' = {}
                    /\ is_shutdown' = FALSE
                    /\ wi_needing_attention' = {}
    /\ UNCHANGED <<itemVars, cfgVars, mpVars, pipe_io, stage_call, stage_run, tableVars, queueVars,
                   trackVars, histVars, futs, exec_shut, was_graceful_shutdown>>

\* caller threads racing on their first submissions, one work item each, on a
\* pipeline without pipes
InitStart ==
    /\ InitPipeline
    /\ pipes = [s \in Stages |-> FALSE]
    /\ start_method = "spawn"
    /\ max_workers = NoLimit
    /\ stage_call = NoStageCall
    /\ stage_run = NoStageRun
    /\ callerThreads = Callers
    /\ workItems = Items

NextStart ==
    \/ PlTop
    \/ PlWait
    \/ PlHandleFut
    \/ PlHandleQueue
    \/ PlAttend
    \/ WorkerDone
    \/ \E t \in Callers : SubmitCheck(t)
    \/ \E t \in Callers : Launch(t)
    \/ \E t \in Callers : Register(t)
    \/ \E t \in Callers : Enqueue(t)
    \/ \E t \in Callers : Shutdown(t)
    \/ \E t \in Callers : Drain(t)
    \/ \E t \in Callers : Join(t)
    \/ \E t \in Callers : Close(t)

SpecStart == InitStart /\ [][NextStart]_vars

\* ------------------------------------------------------------------ items as given
\* The stage indexes a caller can give an item through the cur_stage setter
\* before it submits it: those of the stages, NumStages, and one to either side.
StageIndexes == -1 .. NumStages + 1

\* one caller thread that submits, and submits again, a work item to which it
\* gave any stage index and, or not, a failure (append_exception)
InitIndexed ==
    /\ pipes \in [Stages -> BOOLEAN]
    /\ subproc = [s \in Stages |-> pipes[s] \/ (s > 0 /\ pipes[s - 1])]
    /\ InitController
    /\ cur_stage \in [Items -> StageIndexes]
    /\ \A w \in Items \ {1} : cur_stage[w] = 0
    /\ user_obj = [w \in Items |-> 0]
    /\ exceptions \in [Items -> {<<>>, <<RuntimeError>>}]
    /\ \A w \in Items \ {1} : exceptions[w] = <<>>
    /\ start_method = "spawn"
    /\ max_workers = NoLimit
    /\ stage_call = NoStageCall
    /\ stage_run = NoStageRun
    /\ callerThreads = {1}
    /\ workItems = {1}

SpecIndexed == InitIndexed /\ [][Next]_vars

\* ------------------------------------------------------------------ the worker's item
\* _submit_to_stage, the stage worker and stage_complete on one work item; wi is
\* the caller-visible instance, given what it was when it was submitted, arg the
\* instance the stage worker has, objects the payload objects and what they
\* hold. What is assigned to an instance shows on every holder of that
\* instance, and what is done to an object on every instance that refers to it.
\* copy.copy with the instance itself as its result
copy_copy_returning_self(wi) == wi

\* copy.copy(wi): a new instance whose attributes refer to what those of wi do
copy_copy(wi) == [wi EXCEPT !.inst = @ + 1]

\* pickling to a worker process: another new instance, with a payload object
\* of its own
pickled(wi) == [wi EXCEPT !.inst = @ + 2, !.user_obj = 2]

\* the instance held as h after a was assigned to
Holding(h, a) == IF h.inst = a.inst THEN a ELSE h

\* _submit_to_stage: stage_wi_copy = copy.copy(wi); stage_wi_copy.pipe_conn =
\* pipe_conn; the executor's submit (a process pool pickles its arguments)
SubmitToStage ==
    /\ stage_run.pc = "new"
    /\ LET stage_wi_copy == [copy_copy(stage_run.wi) EXCEPT !.pipe_conn = stage_run.conn]
       IN  stage_run' = [stage_run EXCEPT
                            !.pc = "running",
                            !.wi = Holding(@, stage_wi_copy),
                            !.arg = IF stage_run.subprocess THEN pickled(stage_wi_copy)
                                    ELSE stage_wi_copy,
                            !.objects[2] = IF stage_run.subprocess
                                           THEN stage_run.objects[stage_run.wi.user_obj]
                                           ELSE @]
    /\ UNCHANGED <<pipelineVars, pipe_io, stage_call>>

\* what a stage worker can assign to the item it was given: a payload object it
\* made, a failure (append_exception), no pipe end, a stage index
WorkerAssigns(a) ==
    {[a EXCEPT !.user_obj = 3]}
    \cup {[a EXCEPT !.exceptions = append_exception(@, WorkerError(a.cur_stage))]
          : x \in {n \in {1} : Len(a.exceptions) < MaxFaults}}
    \cup {[a EXCEPT !.pipe_conn = "none"]}
    \cup {[a EXCEPT !.cur_stage = k] : k \in Stages}

\* PipelineStage.perform_stage_work assigning to its argument
StageWork ==
    /\ stage_run.pc = "running"
    /\ \E a \in WorkerAssigns(stage_run.arg) :
          stage_run' = [stage_run EXCEPT !.arg = a, !.wi = Holding(@, a)]
    /\ UNCHANGED <<pipelineVars, pipe_io, stage_call>>

\* PipelineStage.perform_stage_work changing the payload object of its argument
\* in place
StageWorkInPlace ==
    /\ stage_run.pc = "running"
    /\ \E v \in 0 .. MaxPayload :
          stage_run' = [stage_run EXCEPT !.objects[stage_run.arg.user_obj] = v]
    /\ UNCHANGED <<pipelineVars, pipe_io, stage_call>>

\* the worker returns its item (pickled back from a worker process, with the
\* payload object the caller's process gets) and _handle_completed_fut calls
\* stage_complete: self.user_obj = wi.user_obj
StageMerged ==
    /\ stage_run.pc = "running"
    /\ LET r == stage_complete(stage_run.wi.exceptions, stage_run.wi.user_obj, FALSE,
                               stage_run.arg.exceptions, stage_run.arg.user_obj, NoError)
       IN  stage_run' = [stage_run EXCEPT !.pc = "merged",
                                          !.wi.exceptions = r.excs,
                                          !.wi.user_obj = r.obj]
    /\ UNCHANGED <<pipelineVars, pipe_io, stage_call>>

\* the calls of _submit_to_stage: an item that is not failed, at any stage, for
\* a thread or a process pool, with the write end, the read end or no pipe
StageRuns ==
    [pc : {"new"}, conn : {"w", "r", "none"}, subprocess : BOOLEAN,
     objects : {[o \in PayloadObjects |-> IF o = 1 THEN v ELSE 0] : v \in 0 .. MaxPayload},
     wi : {WorkItemInstance(1, k, 1, <<>>, "none") : k \in Stages},
     given : {WorkItemInstance(1, 0, 1, <<>>, "none")},
     arg : {WorkItemInstance(1, 0, 1, <<>>, "none")}]

InitCopy ==
    /\ InitPipeline
    /\ \A s \in Stages : ~pipes[s]
    /\ start_method = "spawn"
    /\ max_workers = NoLimit
    /\ callerThreads = {}
    /\ workItems = {}
    /\ stage_call = NoStageCall
    /\ stage_run \in {[r EXCEPT !.given = r.wi] : r \in StageRuns}

NextCopy ==
    \/ SubmitToStage
    \/ StageWork
    \/ StageWorkInPlace
    \/ StageMerged

SpecCopy == InitCopy /\ [][NextCopy]_vars

\* a reader/writer pair used by a producer and a consumer, no pipeline running
InitChannel ==
    /\ InitPipeline
    /\ start_method = "spawn"
    /\ max_workers = NoLimit
    /\ stage_call = NoStageCall
    /\ stage_run = NoStageRun
    /\ \A s \in Stages : ~pipes[s]
    /\ callerThreads = {}
    /\ workItems = {}

NextChannel ==
    \/ ChSendMessage
    \/ ChWrite
    \/ ChWriteEof
    \/ ChRecvMessage
    \/ ChRead
    \/ ChReset

SpecChannel == InitChannel /\ [][NextChannel]_vars

\* ------------------------------------------------------------------ properties
\* the user Futures (handles) handed out for work item w
HandlesOf(w) == {h \in 1 .. Len(wifuts) : wifuts[h].wi = w}

\* w was finalized: one of its handles is completed
Finalized(w) == \E h \in HandlesOf(w) : wifuts[h].st # "pending"

\* nothing can complete a handle any more: _pl_worker has returned, every call
\* of submit and shutdown has returned, and every stage worker has returned
Quiescent ==
    /\ plPc = "done"
    /\ \A t \in Callers : callers[t].pc = "idle"
    /\ \A f \in FutIds : futs[f].st # "running"

\* the stage executions submitted in this step
NewlySubmitted(w) == {s \in Stages : futs'[<<w, s>>].st = "running" /\ futs[<<w, s>>].st # "running"}

\* C1: every work item accepted by submit() has its handle completed in the end,
\* whatever the interleaving of submit() and shutdown() calls: once _pl_worker
\* has returned, the callers have returned and the stage workers have returned,
\* no accepted item's handle is left pending.
C1_AcceptedItemsComplete ==
    Quiescent => \A w \in Items : \A h \in HandlesOf(w) : wifuts[h].st # "pending"

\* C2: a handle is completed at most once (set_result and set_exception together
\* are called at most once on it), so no item is finalized twice for one submission.
C2_HandleCompletedOnce ==
    \A h \in 1 .. Len(wifuts) :
        /\ wifuts[h].sets <= 1
        /\ wifuts[h].st = "pending" <=> wifuts[h].sets = 0

\* C2 witness: a resubmitted item was finalized for each of its two submissions,
\* each handle completed once
C2_Witness ==
    \E w \in Items : \E h1, h2 \in HandlesOf(w) :
        /\ h1 # h2
        /\ wifuts[h1].sets = 1
        /\ wifuts[h2].sets = 1

\* C3, as the specification states it: a handle of an item finalized with a
\* non-empty failure list is completed with the first failure, so result() raises it.
C3_ResultRaisesFirstFailure ==
    \A h \in 1 .. Len(wifuts) :
        (wifuts[h].st # "pending" /\ is_failed(wifuts[h].excs))
            => (wifuts[h].st = "exception" /\ wifuts[h].ex = Head(wifuts[h].excs))

\* C3, amended: _set_wi_to_finished completes the handle with the item itself
\* (result() returns it, failures in its list); a handle is completed with an
\* exception only by the cascade of a failed _pl_worker, and then with the
\* exception just appended to the item's failure list.
C3_ResultReturnsFailedItem ==
    \A h \in 1 .. Len(wifuts) :
        /\ wifuts[h].st = "result" => wifuts[h].ex = NoError
        /\ wifuts[h].st = "exception" =>
              /\ plPc = "failed"
              /\ wifuts[h].ex = wifuts[h].excs[Len(wifuts[h].excs)]

\* C3 witness: a failed item's handle was completed with the item while
\* _pl_worker goes on
C3_Witness ==
    \E h \in 1 .. Len(wifuts) :
        /\ wifuts[h].st = "result"
        /\ is_failed(wifuts[h].excs)
        /\ plPc # "failed"

\* C4: a stage worker that raises adds its exception to the item's failure list
\* exactly once: the failure list of an item finalized after a worker raised has
\* one entry for each failure that occurred on it (one entry for a single
\* failing stage).
C4_OneEntryPerFailure ==
    \A h \in 1 .. Len(wifuts) :
        ( /\ wifuts[h].st = "result"
          /\ wifuts[h].wi # None
          /\ \E s \in Stages : WorkerError(s) \in SeqToSet(wifuts[h].excs) )
        => Len(wifuts[h].excs) = faults[wifuts[h].wi]

C6_RunOnlyIfAccepted ==
    \A w \in Items : \A s \in Stages :
        /\ futs[<<w, s>>].st # "none" => predAns[<<w, s>>] = "true"
        /\ predAns[<<w, s>>] = "false" =>
              /\ futs[<<w, s>>].st = "none"
              /\ plPc # "failed" => cur_stage[w] > s

\* C6 witness: a stage refused the item and a later stage ran on it
C6_Witness ==
    \E w \in Items : \E s1, s2 \in Stages :
        /\ s1 < s2
        /\ predAns[<<w, s1>>] = "false"
        /\ futs[<<w, s2>>].st # "none"

\* C7: when a stage predicate raises (that of a solo stage or either of a pair),
\* in that same step of the controller the exception is appended to the item's
\* failure list, the stage index is set to NumStages, no execution is submitted
\* and the item is finalized.
C7_PredicateRaiseFinalizes ==
    [][\A w \in Items : \A s \in Stages :
          (predAns'[<<w, s>>] = "raise" /\ predAns[<<w, s>>] # "raise")
            => ( /\ exceptions'[w] = Append(exceptions[w], PredicateError(s))
                 /\ cur_stage'[w] = NumStages
                 /\ NewlySubmitted(w) = {}
                 /\ \A s2 \in Stages : s2 >= s => futs'[<<w, s2>>].st = "none"
                 /\ TableGet(wi_to_wifut, w) # NoFut
                 /\ TableGet(wi_to_wifut', w) = NoFut
                 /\ wifuts'[TableGet(wi_to_wifut, w)].st = "result"
                 /\ wifuts'[TableGet(wi_to_wifut, w)].excs = exceptions'[w] )]_vars

\* C7 witness: the second predicate of a pair raised after the first accepted,
\* and the item was finalized
C7_Witness ==
    \E w \in Items : \E s \in Stages :
        /\ s > 0
        /\ pipes[s - 1]
        /\ predAns[<<w, s - 1>>] = "true"
        /\ predAns[<<w, s>>] = "raise"
        /\ Finalized(w)

Increasing(seq) == \A i, j \in 1 .. Len(seq) : i < j => seq[i] < seq[j]

\* C9: in a pipeline without pairing stages where no predicate and no worker
\* fails, a finalized item was run by exactly the stages whose predicates
\* accepted it, once each, in increasing stage order; it is finalized with an
\* empty failure list and stage index NumStages, and carries the payload of the
\* last stage that ran (its original payload when none ran).
C9_CleanRun ==
    \A w \in Items :
        ( /\ \A s \in Stages : ~pipes[s]
          /\ faults[w] = 0
          /\ \E h \in HandlesOf(w) : wifuts[h].st = "result" )
        => ( /\ \A h \in HandlesOf(w) : wifuts[h].st = "result" => wifuts[h].excs = <<>>
             /\ cur_stage[w] = NumStages
             /\ Increasing(ran[w])
             /\ SeqToSet(ran[w]) = {s \in Stages : predAns[<<w, s>>] = "true"}
             /\ merged[w] = SeqToSet(ran[w])
             /\ user_obj[w] = IF ran[w] = <<>> THEN 0 ELSE ran[w][Len(ran[w])] + 1 )

\* C9 witness: a clean item finalized after two stages ran and one refused it
C9_Witness ==
    \E w \in Items :
        /\ \A s \in Stages : ~pipes[s]
        /\ faults[w] = 0
        /\ Finalized(w)
        /\ Len(ran[w]) >= 2
        /\ \E s \in Stages : predAns[<<w, s>>] = "false"

\* C10: the merge (stage_complete) of an item's stage k is applied before any
\* later stage is submitted for the item, but for a paired k, k+1, whose two
\* executions are out together: an execution submitted while an earlier stage of
\* the item is not merged is the reader of the pair that earlier stage writes to.
C10_MergeBeforeLaterStage ==
    \A w \in Items : \A s1, s2 \in Stages :
        ( /\ s1 < s2
          /\ futs[<<w, s1>>].st # "none"
          /\ futs[<<w, s2>>].st # "none"
          /\ s1 \notin merged[w] )
        => ( /\ s2 = s1 + 1
             /\ futs[<<w, s1>>].pipe = "w"
             /\ futs[<<w, s2>>].pipe = "r" )

\* C10 witness: both stages of a pair were merged and the stage after them runs
C10_Witness ==
    \E w \in Items : \E s \in Stages :
        /\ s + 2 \in Stages
        /\ futs[<<w, s>>].pipe = "w"
        /\ {s, s + 1} \subseteq merged[w]
        /\ futs[<<w, s + 2>>].st = "running"

\* C11, as the specification states it: each raw pipe endpoint of a paired run
\* is closed once, and not before both Futures of the pair have settled.
C11_ClosedAfterBothSettle ==
    \A w \in Items : \A s \in Stages :
        futs[<<w, s>>].pipe = "w" =>
            \A c \in {<<w, s>>, <<w, s + 1>>} :
                /\ conn_closes[c] <= 1
                /\ conn_closes[c] >= 1 => (FutDone(<<w, s>>) /\ FutDone(<<w, s + 1>>))

\* C11, amended: the controller closes each raw pipe endpoint of a paired run at
\* most once, never before the Future of the endpoint's own stage execution has
\* settled, and exactly once by the time that execution is merged; the partner
\* execution may still be running when an endpoint is closed.
C11_ClosedOnceAfterOwnFuture ==
    \A f \in FutIds :
        /\ conn_closes[f] <= 1
        /\ conn_closes[f] = 1 => (futs[f].pipe # "none" /\ FutDone(f))
        /\ f \in DOMAIN fut_to_pipe_conn => conn_closes[f] = 0
        /\ (futs[f].st = "handled" /\ futs[f].pipe # "none") => conn_closes[f] = 1

\* C11 witness: the writer's endpoint was closed while the reader still runs
C11_Witness ==
    \E w \in Items : \E s \in Stages :
        /\ futs[<<w, s>>].pipe = "w"
        /\ conn_closes[<<w, s>>] = 1
        /\ s + 1 \in Stages
        /\ futs[<<w, s + 1>>].st = "running"

\* the sum of the lengths of the data of a sequence of messages
RECURSIVE DataLen(_)
DataLen(msgs) == IF msgs = <<>> THEN 0 ELSE Len(Head(msgs).data) + DataLen(Tail(msgs))

\* C12: when the producer sent only DATA messages and then one DATA_FINAL, and
\* no counter was reset, a consumer that has read to the end of the stream has
\* a byte counter equal to the producer's and to the sum of the payload lengths,
\* and has received the payloads in the order sent.
C12_CountersAgree ==
    ( /\ pipe_io.r_eof
      /\ ~pipe_io.reset
      /\ \A i \in 1 .. Len(pipe_io.sent) : pipe_io.sent[i].cmd \in PIPE_CONN_MSG_DATA_CMDS )
    => ( /\ pipe_io.r_num_bytes = pipe_io.w_num_bytes
         /\ pipe_io.r_num_bytes = DataLen(pipe_io.sent)
         /\ pipe_io.received = pipe_io.sent
         /\ pipe_io.sent[Len(pipe_io.sent)].cmd = PIPE_CONN_MSG_CMD_DATA_FINAL
         /\ pipe_io.conn = <<>> )

\* C12 witness: two DATA messages and a DATA_FINAL with data were read to the end
C12_Witness ==
    /\ pipe_io.r_eof
    /\ ~pipe_io.reset
    /\ Len(pipe_io.sent) = 3
    /\ \A i \in 1 .. 3 : pipe_io.sent[i].cmd \in PIPE_CONN_MSG_DATA_CMDS
    /\ \A i \in 1 .. 3 : Len(pipe_io.sent[i].data) > 0
    /\ pipe_io.sent[1].data # pipe_io.sent[2].data

\* the executors of the pipeline: _thread_exec, _process_exec, _process_exec2
Executors == {"thread_exec", "process_exec", "process_exec2"}

\* C13: whenever shutdown() returns, the thread pool and both subprocess pools
\* have been shut down and _wi_to_wifut is empty, whether or not an item was
\* ever submitted.
C13_ShutdownLeavesAllShut ==
    [][\A t \in Callers :
          (callers'[t].res = "returned" /\ callers[t].res # "returned")
            => (Executors \subseteq exec_shut' /\ wi_to_wifut' = <<>>)]_vars

\* C14: shutdown() returns in the end when every stage worker returns or
\* raises: no call of shutdown() is left waiting for _wi_to_wifut to drain when
\* _pl_worker has ended, no stage worker is running and no other call is under
\* way, for then nothing is left that removes an entry.
C14_ShutdownNotBlocked ==
    \A t \in Callers :
        ~ ( /\ callers[t].pc = "drain"
            /\ Len(wi_to_wifut) > 0
            /\ plPc \in {"done", "failed"}
            /\ \A f \in FutIds : futs[f].st # "running"
            /\ \A u \in Callers \ {t} : callers[u].pc = "idle" )

\* C15: after shutdown() has returned to a thread, a submit(item) of that
\* thread fails: it does not get to register a handle or to queue the item.
C15_SubmitAfterShutdownFails ==
    [][\A t \in Callers :
          (callers[t].pc = "idle" /\ callers[t].res = "returned")
            => callers'[t].pc # "register"]_vars

\* C16: submit(item) raises InvalidFunctionArgument when item is None or is
\* still in _wi_to_wifut (a call that goes on has a work item that is not in the
\* table), and the raising call registers no handle, queues nothing and leaves
\* the handles as they are.
C16_InvalidArgument ==
    [][\A t \in Callers :
          /\ (callers[t].pc = "idle" /\ callers'[t].pc = "register")
                => ( /\ callers'[t].wi # None
                     /\ TableGet(wi_to_wifut, callers'[t].wi) = NoFut )
          /\ (callers'[t] # callers[t] /\ callers'[t].res = "InvalidFunctionArgument")
                => ( /\ callers[t].pc = "idle"
                     /\ wi_to_wifut' = wi_to_wifut
                     /\ wifuts' = wifuts
                     /\ pl_input_queue' = pl_input_queue
                     /\ input_queue_fut' = input_queue_fut )]_vars

\* C16 witness: a submit was refused while the item's earlier handle is pending
\* in the table, with its stage running
C16_Witness ==
    \E t \in Callers : \E w \in Items :
        /\ callers[t].res = "InvalidFunctionArgument"
        /\ TableGet(wi_to_wifut, w) # NoFut
        /\ wifuts[TableGet(wi_to_wifut, w)].st = "pending"
        /\ is_wi_still_running(running_wi_contexts, w)

\* the last entry of a failure list
LastOf(seq) == seq[Len(seq)]

\* C17: in a pipeline whose last stage has is_pipe_with_next_stage set, an item
\* that _pl_worker walks to that last stage is finalized: the step in which
\* PipelineLastStageError is raised for it completes its user Future with
\* PipelineLastStageError and appends that error to the item's failure list.
C17_LastStagePairedFinalizes ==
    [][\A w \in Items :
          ( /\ plPc = "attend"
            /\ plPc' = "failed"
            /\ pipes[NumStages - 1]
            /\ w \in wi_needing_attention
            /\ attention_choice(running_wi_contexts, exceptions[w], w) = "advance"
            /\ cur_stage'[w] = NumStages - 1 )
          => LET h == TableGet(wi_to_wifut, w)
             IN  /\ h # NoFut
                 /\ wifuts'[h].st = "exception"
                 /\ wifuts'[h].ex = PipelineLastStageError
                 /\ is_failed(exceptions'[w])
                 /\ LastOf(exceptions'[w]) = PipelineLastStageError]_vars

\* C18: when an exception e escapes the body of _pl_worker, every work item that
\* is in _wi_to_wifut at that moment with a user Future that is not done has e
\* appended to its failure list and its user Future completed with e.
C18_AllPendingFailed ==
    [][(plPc # "failed" /\ plPc' = "failed")
          => LET pend == {i \in 1 .. Len(wi_to_wifut) :
                             /\ wi_to_wifut[i].wi # None
                             /\ wifuts[wi_to_wifut[i].fut].st = "pending"}
             IN  \A i \in pend :
                    LET wi == wi_to_wifut[i].wi
                        h == wi_to_wifut[i].fut
                    IN  /\ wifuts'[h].st = "exception"
                        /\ exceptions'[wi] # exceptions[wi]
                        /\ LastOf(exceptions'[wi]) = wifuts'[h].ex
                        /\ \A j \in pend :
                              wifuts'[wi_to_wifut[j].fut].ex = wifuts'[h].ex]_vars

\* C19: was_graceful_shutdown is False at first; it becomes True only in the
\* step in which _pl_worker leaves its loop with is_shutdown set, and
\* is_shutdown is set only by taking the None item off the input queue; it is
\* not True when _pl_worker has ended with an exception.
C19_GracefulOnlyOnSentinel ==
    /\ ~was_graceful_shutdown
    /\ [][ /\ (was_graceful_shutdown' /\ ~was_graceful_shutdown)
                => (plPc = "handle" /\ plPc' = "done" /\ is_shutdown')
           /\ (is_shutdown' /\ ~is_shutdown)
                => ( /\ plPc = "handle"
                     /\ pl_input_queue # <<>>
                     /\ Head(pl_input_queue) = None
                     /\ pl_input_queue' = Tail(pl_input_queue) )
           /\ (was_graceful_shutdown' => (plPc' = "done"))
           /\ ((plPc' = "failed") => ~was_graceful_shutdown') ]_vars

\* C19 witness: the flag is True after a submitted item was finalized and the
\* None item of shutdown() was taken off the queue
C19_Witness ==
    /\ was_graceful_shutdown
    /\ plPc = "done"
    /\ \E h \in 1 .. Len(wifuts) : wifuts[h].st = "result"

\* the failures of kind k in a failure list
HasError(excs, k) == \E i \in 1 .. Len(excs) : excs[i][1] = k

\* C20: an exception raised by a stage worker for one work item does not leave
\* _pl_worker: the step that handles the raised Future records the failure on
\* that item, leaves the failure lists of the other items and every user Future
\* as they are, and _pl_worker goes on; _pl_worker never ends with a stage
\* worker's exception, and a shutdown() that is joined after it returns with
\* was_graceful_shutdown True.
C20_WorkerExceptionContained ==
    [][ /\ ( /\ plPc = "handle"
             /\ done_futs # <<>>
             /\ Head(done_futs) \in DOMAIN plfut_to_wi
             /\ futs[Head(done_futs)].st = "raised" )
           => LET w == plfut_to_wi[Head(done_futs)]
              IN  /\ plPc' # "failed"
                  /\ HasError(exceptions'[w], "worker")
                  /\ \A v \in Items \ {w} : exceptions'[v] = exceptions[v]
                  /\ wifuts' = wifuts
        /\ plEx'[1] # "worker"
        /\ \A v \in Items : HasError(exceptions'[v], "worker") => faults'[v] > 0
        /\ \A t \in Callers :
              (callers[t].pc = "close" /\ callers'[t].res = "returned")
                => was_graceful_shutdown' ]_vars

\* C20 witness: the worker of one item raised, an item submitted after it ran
\* its stages and was finalized without a failure, and shutdown() returned with
\* was_graceful_shutdown True
C20_Witness ==
    \E w \in Items : \E v \in Items \ {w} :
        /\ HasError(exceptions[w], "worker")
        /\ w < v
        /\ exceptions[v] = <<>>
        /\ ran[v] # <<>>
        /\ \E h \in HandlesOf(v) : wifuts[h].st = "result"
        /\ \E h \in HandlesOf(w) : wifuts[h].st = "result"
        /\ was_graceful_shutdown
        /\ \E t \in Callers : callers[t].res = "returned"

\* the calls of the producer
ProducerOps == {"send_message", "write", "write_eof"}

\* the number of DATA_FINAL messages among msgs
NumFinal(msgs) ==
    Cardinality({i \in 1 .. Len(msgs) : msgs[i].cmd = PIPE_CONN_MSG_CMD_DATA_FINAL})

\* C24: on the writer, _eof becomes True when a DATA_FINAL message is sent and
\* never becomes False again; every later send_message, write of a non-empty
\* buffer and write_eof raises PipeConnectionAlreadyEof, sends nothing and
\* leaves _num_bytes as it is; at most one DATA_FINAL message is ever sent.
C24_ProducerEofLatches ==
    [][ /\ pipe_io.w_eof => pipe_io'.w_eof
        /\ ( /\ Len(pipe_io'.sent) > Len(pipe_io.sent)
             /\ LastOf(pipe_io'.sent).cmd = PIPE_CONN_MSG_CMD_DATA_FINAL )
           => pipe_io'.w_eof
        /\ ( /\ pipe_io.w_eof
             /\ pipe_io' # pipe_io
             /\ pipe_io'.ret.op \in ProducerOps
             /\ ~(pipe_io'.ret.op = "write" /\ pipe_io'.ret.len = 0) )
           => ( /\ pipe_io'.ret.exc = "PipeConnectionAlreadyEof"
                /\ pipe_io'.sent = pipe_io.sent
                /\ pipe_io'.conn = pipe_io.conn
                /\ pipe_io'.w_num_bytes = pipe_io.w_num_bytes )
        /\ NumFinal(pipe_io'.sent) <= 1 ]_vars

\* C24 witness: a write of a non-empty buffer was refused after a DATA_FINAL
\* message that followed a DATA message
C24_Witness ==
    /\ pipe_io.w_eof
    /\ Len(pipe_io.sent) = 2
    /\ pipe_io.ret.op = "write"
    /\ pipe_io.ret.len > 0
    /\ pipe_io.ret.exc = "PipeConnectionAlreadyEof"

\* C25: write(buf) with a zero-length buf returns 0, sends no message and leaves
\* _num_bytes and _eof as they are; write(buf) with a non-empty buf on a writer
\* that is not eof sends exactly one DATA message with buf, returns len(buf) and
\* adds len(buf) to _num_bytes.
C25_WriteEffect ==
    [][ (pipe_io' # pipe_io /\ pipe_io'.ret.op = "write")
          => IF pipe_io'.ret.len = 0
             THEN /\ pipe_io'.ret.exc = "none"
                  /\ pipe_io'.ret.n = 0
                  /\ pipe_io' = [pipe_io EXCEPT !.ret = pipe_io'.ret]
             ELSE ~pipe_io.w_eof
                    => ( /\ pipe_io'.ret.exc = "none"
                         /\ pipe_io'.ret.n = pipe_io'.ret.len
                         /\ Len(pipe_io'.sent) = Len(pipe_io.sent) + 1
                         /\ LastOf(pipe_io'.sent).cmd = PIPE_CONN_MSG_CMD_DATA
                         /\ Len(LastOf(pipe_io'.sent).data) = pipe_io'.ret.len
                         /\ pipe_io'.conn = Append(pipe_io.conn, LastOf(pipe_io'.sent))
                         /\ pipe_io'.w_num_bytes = pipe_io.w_num_bytes + pipe_io'.ret.len
                         /\ ~pipe_io'.w_eof ) ]_vars

\* C25 witness: a zero-length write returned 0 after a write of MaxPayload bytes
\* was sent as the only message
C25_Witness ==
    /\ pipe_io.ret = Call("write", PIPE_CONN_MSG_CMD_DATA, 0, "none", 0)
    /\ Len(pipe_io.sent) = 1
    /\ pipe_io.sent[1].cmd = PIPE_CONN_MSG_CMD_DATA
    /\ pipe_io.w_num_bytes = MaxPayload
    /\ ~pipe_io.w_eof

\* C26: on the reader, once a DATA_FINAL message was received _eof stays True,
\* and every later read() returns empty bytes, receives nothing from the
\* Connection and leaves _num_bytes as it is.
C26_ConsumerEofLatches ==
    [][ /\ pipe_io.r_eof => pipe_io'.r_eof
        /\ ( /\ Len(pipe_io'.received) > Len(pipe_io.received)
             /\ LastOf(pipe_io'.received).cmd = PIPE_CONN_MSG_CMD_DATA_FINAL )
           => pipe_io'.r_eof
        /\ (pipe_io.r_eof /\ pipe_io' # pipe_io /\ pipe_io'.ret.op = "read")
           => ( /\ pipe_io'.ret.exc = "none"
                /\ pipe_io'.ret.n = 0
                /\ pipe_io'.received = pipe_io.received
                /\ pipe_io'.conn = pipe_io.conn
                /\ pipe_io'.r_num_bytes = pipe_io.r_num_bytes ) ]_vars

\* C26 witness: read() returned empty bytes after a DATA_FINAL message with data
\* had been received
C26_Witness ==
    /\ pipe_io.r_eof
    /\ pipe_io.ret = Call("read", "", -1, "none", 0)
    /\ pipe_io.r_num_bytes > 0
    /\ Len(LastOf(pipe_io.received).data) > 0

\* C27 as claimed: a step that sends or receives a message with a custom command
\* leaves both byte counters as they are.
C27_CustomLeavesCounter ==
    [][ /\ ( /\ Len(pipe_io'.sent) > Len(pipe_io.sent)
             /\ LastOf(pipe_io'.sent).cmd \notin PIPE_CONN_MSG_DATA_CMDS )
           => pipe_io'.w_num_bytes = pipe_io.w_num_bytes
        /\ ( /\ Len(pipe_io'.received) > Len(pipe_io.received)
             /\ LastOf(pipe_io'.received).cmd \notin PIPE_CONN_MSG_DATA_CMDS )
           => pipe_io'.r_num_bytes = pipe_io.r_num_bytes ]_vars

\* C27 amended: _num_bytes of an endpoint advances by the length of the data of
\* every message it sends or receives, whatever the command; a step that sends
\* (receives) nothing leaves the writer's (reader's) counter as it is, unless it
\* is reset_num_bytes on that endpoint, which sets it to 0.
C27_CounterAdvancesForEveryMessage ==
    [][ /\ Len(pipe_io'.sent) > Len(pipe_io.sent)
           => pipe_io'.w_num_bytes = pipe_io.w_num_bytes + Len(LastOf(pipe_io'.sent).data)
        /\ Len(pipe_io'.sent) = Len(pipe_io.sent)
           => \/ pipe_io'.w_num_bytes = pipe_io.w_num_bytes
              \/ ( /\ pipe_io'.ret.op = "reset_num_bytes"
                   /\ pipe_io'.ret.cmd = "w"
                   /\ pipe_io'.w_num_bytes = 0 )
        /\ Len(pipe_io'.received) > Len(pipe_io.received)
           => pipe_io'.r_num_bytes =
                 pipe_io.r_num_bytes + Len(LastOf(pipe_io'.received).data)
        /\ Len(pipe_io'.received) = Len(pipe_io.received)
           => \/ pipe_io'.r_num_bytes = pipe_io.r_num_bytes
              \/ ( /\ pipe_io'.ret.op = "reset_num_bytes"
                   /\ pipe_io'.ret.cmd = "r"
                   /\ pipe_io'.r_num_bytes = 0 ) ]_vars

\* C27 witness: a custom message with data was sent and received and both
\* counters hold the length of its data
C27_Witness ==
    /\ ~pipe_io.reset
    /\ Len(pipe_io.received) = 1
    /\ pipe_io.received[1].cmd = CustomCmd
    /\ Len(pipe_io.received[1].data) = MaxPayload
    /\ pipe_io.w_num_bytes = MaxPayload
    /\ pipe_io.r_num_bytes = MaxPayload

\* the places (entry, context) of _running_wi_contexts that hold Future f
ContextsOf(f) ==
    {pi \in (1 .. Len(running_wi_contexts)) \X (1 .. NumStages) :
        /\ pi[2] <= Len(running_wi_contexts[pi[1]].ctxs)
        /\ running_wi_contexts[pi[1]].ctxs[pi[2]].fut = f}

\* C29: a Future is a key of _plfut_to_wi if and only if it is in exactly one
\* context of _running_wi_contexts, in the list of the work item _plfut_to_wi
\* maps it to; no Future is in two contexts, no work item has two lists and no
\* list is empty.
C29_TrackingTablesAgree ==
    /\ \A p \in 1 .. Len(running_wi_contexts) :
          /\ running_wi_contexts[p].ctxs # <<>>
          /\ \A q \in 1 .. Len(running_wi_contexts) :
                running_wi_contexts[p].wi = running_wi_contexts[q].wi => p = q
    /\ \A f \in FutIds :
          /\ Cardinality(ContextsOf(f)) <= 1
          /\ f \in DOMAIN plfut_to_wi <=> ContextsOf(f) # {}
          /\ \A pi \in ContextsOf(f) :
                running_wi_contexts[pi[1]].wi = plfut_to_wi[f]

\* C29 witness: of the two executions of a paired run one was untracked and the
\* other is still tracked
C29_Witness ==
    \E w \in Items : \E s \in Stages \ {NumStages - 1} :
        /\ pipes[s]
        /\ futs[<<w, s>>].st = "handled"
        /\ <<w, s>> \notin DOMAIN plfut_to_wi
        /\ <<w, s + 1>> \in DOMAIN plfut_to_wi
        /\ ContextsOf(<<w, s + 1>>) # {}

\* C30: a key is in _wi_to_wifut if and only if it is a submitted work item
\* whose user Future is not done: every key is a work item with a pending user
\* Future (also after the cascade of _fail_all_pending), and every pending user
\* Future of a work item is the value of a key.
C30_TableIsPendingItems ==
    /\ \A i \in 1 .. Len(wi_to_wifut) :
          /\ wi_to_wifut[i].wi \in Items
          /\ wifuts[wi_to_wifut[i].fut].st = "pending"
    /\ \A h \in 1 .. Len(wifuts) :
          (wifuts[h].wi \in Items /\ wifuts[h].st = "pending")
            => \E i \in 1 .. Len(wi_to_wifut) : wi_to_wifut[i].fut = h

Admitted(w) == predAns[<<w, 0>>] # "none"

\* C23: work items are admitted (taken off the input queue and walked from
\* stage 0) in the order in which they were put on the queue: with one caller
\* submitting the items for the first time in the order of their numbers, an
\* item is never admitted while an item put on the queue before it is not.
C23_AdmissionInSubmissionOrder ==
    \A v \in Items : \A w \in Items :
        (v < w /\ Admitted(w)) => Admitted(v)

\* C23 witness: the first item is admitted and running while the second, put
\* on the queue after it, is still on the queue
C23_Witness ==
    /\ NumItems >= 2
    /\ Admitted(1)
    /\ ~Admitted(2)
    /\ pl_input_queue = <<2>>
    /\ ran[1] # <<>>

\* self's failure list is the beginning of the failure list out
IsPrefix(a, b) == Len(a) <= Len(b) /\ SubSeq(b, 1, Len(a)) = a

\* C28 as claimed: stage_complete sets user_obj to that of the result, leaves
\* _cur_stage, user_kwargs, pipe_conn and _auto_copy_attr of the item as they
\* are, and copies the other attributes of the result (the failure list and the
\* user's attributes) if and only if _auto_copy_attr is set.
C28_OthersCopiedIffFlag ==
    (stage_call.done /\ stage_call.ex = NoError)
    => LET self == stage_call.self
           wi == stage_call.wi
           out == stage_call.out
       IN  /\ out.user_obj = wi.user_obj
           /\ out.cur_stage = self.cur_stage
           /\ out.user_kwargs = self.user_kwargs
           /\ out.pipe_conn = self.pipe_conn
           /\ out.auto_copy_attr = self.auto_copy_attr
           /\ IF self.auto_copy_attr
              THEN /\ out.exceptions = wi.exceptions
                   /\ \A k \in UserAttrs : wi.attrs[k] # None => out.attrs[k] = wi.attrs[k]
              ELSE /\ out.exceptions = self.exceptions
                   /\ out.attrs = self.attrs

\* C28 amended: stage_complete sets user_obj to that of the result and leaves
\* _cur_stage, user_kwargs, pipe_conn and _auto_copy_attr of the item as they
\* are; the failure list is not overwritten either: whatever _auto_copy_attr is,
\* it keeps the item's failures and has the failures of the result appended;
\* every other attribute the result has is copied if the item's _auto_copy_attr
\* is set (an attribute the result has not stays), and none is if it is not.
C28_StageCompleteEffect ==
    stage_call.done
    => LET self == stage_call.self
           wi == stage_call.wi
           out == stage_call.out
       IN  /\ out.user_obj = wi.user_obj
           /\ out.cur_stage = self.cur_stage
           /\ out.user_kwargs = self.user_kwargs
           /\ out.pipe_conn = self.pipe_conn
           /\ out.auto_copy_attr = self.auto_copy_attr
           /\ IsPrefix(self.exceptions, out.exceptions)
           /\ \A i \in 1 .. Len(wi.exceptions) :
                 \E j \in 1 .. Len(out.exceptions) : out.exceptions[j] = wi.exceptions[i]
           /\ stage_call.ex # NoError
                 => \E j \in 1 .. Len(out.exceptions) : out.exceptions[j] = stage_call.ex
           /\ (stage_call.ex = NoError /\ ~is_failed(wi.exceptions))
                 => out.exceptions = self.exceptions
           /\ IF self.auto_copy_attr
              THEN \A k \in UserAttrs :
                      out.attrs[k] = IF wi.attrs[k] # None THEN wi.attrs[k] ELSE self.attrs[k]
              ELSE out.attrs = self.attrs

\* C28 witness: an item with _auto_copy_attr unset and a failure of its own was
\* given a failed result that has _auto_copy_attr set and every attribute: the
\* failures were merged and no attribute was copied
C28_Witness ==
    /\ stage_call.done
    /\ stage_call.ex = NoError
    /\ ~stage_call.self.auto_copy_attr
    /\ stage_call.wi.auto_copy_attr
    /\ \A k \in UserAttrs : stage_call.wi.attrs[k] # None /\ stage_call.self.attrs[k] = None
    /\ stage_call.out.exceptions = stage_call.self.exceptions \o stage_call.wi.exceptions
    /\ Len(stage_call.out.exceptions) = 2
    /\ stage_call.out.user_obj = 2

\* the paired runs whose upstream execution raised: (item, upstream stage)
UpstreamRaised == {g \in FutIds : futs[g].pipe = "w" /\ futs[g].st = "raised"}

\* C21 (safety part): in a paired run whose upstream stage raised before writing,
\* once the controller has settled the upstream handle (closed its write end),
\* the downstream read() is not left blocked: no write end of the pipe is open
\* any more, so that the read returns an empty buffer.
C21_ReadReturnsOnceUpstreamSettled ==
    \A g \in UpstreamRaised :
        (conn_closes[g] = 1 /\ futs[<<g[1], g[2] + 1>>].st = "running")
            => ~WriteEndOpen(g)

\* C21: in a paired run whose upstream stage raises before writing any frame, the
\* item is finalized in the end, with a failure list of length at least 1.
C21_UpstreamFailureFinalizes ==
    \A w \in Items :
        (\E g \in UpstreamRaised : g[1] = w)
            ~> (\E h \in HandlesOf(w) : wifuts[h].st # "pending" /\ Len(wifuts[h].excs) >= 1)

\* the same where the pools' workers are spawned: the downstream read returns
\* and the item is finalized with a failure list of length at least 1
C21_UpstreamFailureFinalizesSpawned ==
    \A g \in Items \X (0 .. NumStages - 2) :
        (start_method = "spawn" /\ g \in UpstreamRaised)
            ~> ( /\ futs[<<g[1], g[2] + 1>>].st # "running"
                 /\ \E h \in HandlesOf(g[1]) :
                       wifuts[h].st # "pending" /\ Len(wifuts[h].excs) >= 1 )

\* the Futures of stage executions among the controller's done_futs
DoneStageFuts == {done_futs[i] : i \in 1 .. Len(done_futs)} \ {InputFut}

\* C31: the partition hands out no Future of a work item that has an execution
\* still running, and stage_complete is applied to an execution of an item (its
\* Future is handled) only when no execution of that item is running.
C31_NoHalfSettled ==
    /\ [](\A f \in DoneStageFuts : \A s \in Stages : futs[<<f[1], s>>].st # "running")
    /\ [][\A f \in FutIds :
             (futs'[f].st = "handled" /\ futs[f].st # "handled")
               => \A s \in Stages : futs[<<f[1], s>>].st # "running"]_vars

\* C31 witness: the controller has partitioned (it closed the upstream endpoint)
\* while the upstream half of a pair was done and the downstream half running,
\* and waits with the upstream half neither handed out nor merged
C31_Witness ==
    \E w \in Items : \E s \in 0 .. NumStages - 2 :
        /\ futs[<<w, s>>].pipe = "w"
        /\ futs[<<w, s>>].st \in {"ok", "raised", "notworkitem"}
        /\ futs[<<w, s + 1>>].st = "running"
        /\ conn_closes[<<w, s>>] = 1
        /\ plPc = "wait"
        /\ done_futs = <<>>
        /\ <<w, s + 1>> \in pending_futs
        /\ <<w, s>> \notin pending_futs
        /\ s \notin merged[w]

\* C32: no wakeup is lost between _internal_submit and the rearm: whenever the
\* controller is in its wait and the queue is not empty, the input queue Future
\* is among the Futures waited for and either is done or is about to be
\* completed by a caller that has put its item and not yet woken the controller.
C32_NoLostWakeup ==
    (plPc = "wait" /\ Len(pl_input_queue) > 0)
        => /\ InputFut \in pending_futs
           /\ \/ input_queue_fut = "done"
              \/ \E t \in Callers : callers[t].pc = "wake"

\* C32, in time: while the controller is running, a queue that is not empty
\* does not stay as it is: an entry is taken off or the controller ends
C32_QueueIsServed ==
    \A n \in 1 .. MaxHandles :
        (Len(pl_input_queue) = n /\ plPc \notin {"none", "done", "failed"})
            ~> (Len(pl_input_queue) # n \/ plPc \in {"done", "failed"})

\* C32 witness: the controller rearmed on an empty queue and went into its wait,
\* then a caller put an item and has not woken it yet
C32_Witness ==
    /\ plPc = "wait"
    /\ Len(pl_input_queue) > 0
    /\ input_queue_fut = "pending"
    /\ \E t \in Callers : callers[t].pc = "wake"

\* C33: when _pl_worker leaves its loop on the shutdown sentinel, no work item
\* touched in that iteration (an execution of it was handled, or it was taken
\* off the queue) that has no execution outstanding is left without having been
\* advanced or finalized.
C33_TouchedItemsAttendedBeforeLeaving ==
    [][(plPc' = "done" /\ plPc # "done")
         => \A w \in wi_needing_attention' :
               is_wi_still_running(running_wi_contexts', w)]_vars

\* the contexts _running_wi_contexts holds for work item w
CtxsOfItem(rwc, w) == IF CtxPos(rwc, w) = 0 THEN <<>> ELSE rwc[CtxPos(rwc, w)].ctxs

\* C34: a stage that asks for a pipe is never submitted as a solo stage, and the
\* step that submits a stage k as an upstream half (both predicates having
\* accepted) submits stage k with the write end and stage k+1 with the read end
\* and nothing else, tracks two contexts (k, then k+1) and two entries of
\* _fut_to_pipe_conn, and leaves _cur_stage at k+2; stage k goes to the first
\* pool and stage k+1 to the second, which is handed only downstream halves.
C34_PairedSubmission ==
    /\ [](\A f \in FutIds : futs[f].pool = "process_exec2" => futs[f].pipe = "r")
    /\ [][\A w \in Items : \A k \in NewlySubmitted(w) :
             pipes[k] => futs'[<<w, k>>].pipe \in {"w", "r"}]_vars
    /\ [][\A w \in Items : \A k \in Stages :
             (k \in NewlySubmitted(w) /\ futs'[<<w, k>>].pipe = "w")
               => /\ k + 1 \in Stages
                  /\ pipes[k]
                  /\ predAns'[<<w, k>>] = "true"
                  /\ predAns'[<<w, k + 1>>] = "true"
                  /\ NewlySubmitted(w) = {k, k + 1}
                  /\ futs'[<<w, k>>].pipe = "w"
                  /\ futs'[<<w, k + 1>>].pipe = "r"
                  /\ futs'[<<w, k>>].pool = PoolOf(k, FALSE)
                  /\ futs'[<<w, k + 1>>].pool = PoolOf(k + 1, TRUE)
                  /\ CtxsOfItem(running_wi_contexts', w) =
                        << [cur_stage |-> k, fut |-> <<w, k>>],
                           [cur_stage |-> k + 1, fut |-> <<w, k + 1>>] >>
                  /\ {f \in DOMAIN fut_to_pipe_conn' : f[1] = w} = {<<w, k>>, <<w, k + 1>>}
                  /\ DOMAIN fut_to_pipe_conn \cap {<<w, k>>, <<w, k + 1>>} = {}
                  /\ fut_to_pipe_conn'[<<w, k>>] # fut_to_pipe_conn'[<<w, k + 1>>]
                  /\ conn_closes'[<<w, k>>] = 0 /\ conn_closes'[<<w, k + 1>>] = 0
                  /\ cur_stage[w] <= k
                  /\ cur_stage'[w] = k + 2]_vars

\* C34 witness: a pair is running, the upstream half in the first process pool
\* with the write end and the downstream half in the second with the read end
C34_Witness ==
    \E w \in Items : \E k \in 0 .. NumStages - 2 :
        /\ futs[<<w, k>>].st = "running" /\ futs[<<w, k + 1>>].st = "running"
        /\ futs[<<w, k>>].pipe = "w" /\ futs[<<w, k + 1>>].pipe = "r"
        /\ futs[<<w, k>>].pool = "process_exec"
        /\ futs[<<w, k + 1>>].pool = "process_exec2"
        /\ cur_stage[w] = k + 2
        /\ {<<w, k>>, <<w, k + 1>>} \subseteq DOMAIN fut_to_pipe_conn

\* the upstream halves of the paired runs of InitPools' pipeline (stage 0 is the
\* stage that asks for a pipe), and the downstream half of each
UpstreamHalves == Items \X {0}
DownstreamOf(f) == <<f[1], f[2] + 1>>

\* C35: with bounded pools, an upstream half that has a worker and waits for its
\* downstream half to read leads to the downstream half having a worker, and
\* from some time on every execution of a paired run that was submitted has
\* its Future done
C35_NoPoolSaturationDeadlock ==
    /\ \A f \in UpstreamHalves :
          (futs[f].st = "running" /\ futs[f].pipe = "w" /\ HasWorker(f))
             ~> (futs[DownstreamOf(f)].st # "running" \/ HasWorker(DownstreamOf(f)))
    /\ <>[](\A f \in FutIds : futs[f].pipe # "none" => FutDone(f))

\* C35 witness: the first pool is saturated (a call of it waits for a worker)
\* while an upstream half holds a worker of it and its downstream half holds a
\* worker of the second pool
C35_Witness ==
    \E f \in UpstreamHalves :
        /\ futs[f].st = "running" /\ futs[f].pipe = "w" /\ HasWorker(f)
        /\ futs[DownstreamOf(f)].st = "running" /\ HasWorker(DownstreamOf(f))
        /\ futs[DownstreamOf(f)].pool = "process_exec2"
        /\ \E g \in FutIds : futs[g].st = "running" /\ futs[g].pool = "process_exec"
                             /\ ~HasWorker(g)

\* C36: _start launches _pl_worker only when none is launched: every step in
\* which a caller thread submits _pl_worker to the thread pool starts from a state
\* where _pl_worker_future is None
C36_StartIsIdempotent ==
    [][\A t \in Callers :
          (callers[t].pc = "launch" /\ callers'[t].pc = "register") => ~pl_worker_future]_vars

\* C37: the two executions of a paired run are merged only when both Futures are
\* done, the upstream stage first and the downstream stage second whichever
\* ended first; the merge of a downstream execution that returned its copy
\* leaves the item with that copy's payload, so an item that is not failed after
\* both merges carries the payload the downstream stage returned.
C37_PairMergedInStageOrder ==
    /\ [][\A w \in Items : \A s \in Stages :
             (s \in merged'[w] /\ s \notin merged[w] /\ futs[<<w, s>>].pipe = "r")
                => /\ s - 1 \in merged[w]
                   /\ futs[<<w, s - 1>>].st = "handled"
                   /\ futs[<<w, s>>].st = "ok" => user_obj'[w] = futs[<<w, s>>].obj]_vars
    /\ [][\A w \in Items : \A s \in Stages :
             (s \in merged'[w] /\ s \notin merged[w] /\ futs[<<w, s>>].pipe = "w")
                => /\ FutDone(<<w, s + 1>>)
                   /\ futs[<<w, s + 1>>].pipe = "r"
                   /\ s + 1 \notin merged[w]]_vars
    /\ [](\A w \in Items : \A s \in 0 .. NumStages - 2 :
             ( /\ futs[<<w, s>>].pipe = "w"
               /\ {s, s + 1} \subseteq merged[w]
               /\ \A k \in Stages : k > s + 1 => k \notin merged[w]
               /\ ~is_failed(exceptions[w]) )
             => user_obj[w] = s + 2)

\* C37 witness: both executions of a pair have ended with their copies returned
\* and the controller, having merged the upstream one, is about to merge the
\* downstream one
C37_Witness ==
    \E w \in Items : \E s \in 0 .. NumStages - 2 :
        /\ plPc = "handle"
        /\ done_futs # <<>>
        /\ Head(done_futs) = <<w, s + 1>>
        /\ futs[<<w, s + 1>>].pipe = "r"
        /\ futs[<<w, s + 1>>].st = "ok"
        /\ s \in merged[w]
        /\ s + 1 \notin merged[w]
        /\ user_obj[w] = s + 1

\* a step in which the walk of w came to stage k, which asks for a pipe, as its
\* current stage (not as the downstream half of the pair of k-1) and left it
\* without starting the pair, no predicate having raised
PairRefused(w, k) ==
    /\ pipes[k]
    /\ cur_stage[w] <= k /\ k < cur_stage'[w]
    /\ plPc' # "failed"
    /\ ~is_failed(exceptions'[w])
    /\ ~(k \in NewlySubmitted(w) /\ futs'[<<w, k>>].pipe = "r")
    /\ ~(k + 1 \in NewlySubmitted(w) /\ futs'[<<w, k + 1>>].pipe = "r")

\* C38: when the pair of stage k is not started because a predicate returned
\* False, stage k is not submitted and stage k+1 is asked by itself: a stage k+1
\* without a pipe is submitted exactly if its predicate accepts, with no pipe
\* end; a stage k+1 that asks for a pipe is submitted only if its predicate and
\* that of k+2 accept, as the upstream half of its own pair; it is never given
\* a read end. (predAns holds the last answer of each predicate; the predicate
\* of k+1 is asked again when the pair of k was refused by it.)
C38_RefusedPairSkipsOneStage ==
    [][\A w \in Items : \A k \in 0 .. NumStages - 2 :
          PairRefused(w, k) =>
             /\ k \notin NewlySubmitted(w)
             /\ futs'[<<w, k>>].st = "none"
             /\ predAns'[<<w, k>>] \in {"true", "false"}
             /\ predAns'[<<w, k + 1>>] \in {"true", "false"}
             /\ k + 1 \in NewlySubmitted(w) => futs'[<<w, k + 1>>].pipe # "r"
             /\ ~pipes[k + 1] =>
                   /\ k + 1 \in NewlySubmitted(w) <=> predAns'[<<w, k + 1>>] = "true"
                   /\ k + 1 \in NewlySubmitted(w) =>
                         /\ futs'[<<w, k + 1>>].pipe = "none"
                         /\ cur_stage'[w] = k + 2
             /\ (pipes[k + 1] /\ k + 1 \in NewlySubmitted(w)) =>
                   /\ predAns'[<<w, k + 1>>] = "true"
                   /\ predAns'[<<w, k + 2>>] = "true"
                   /\ futs'[<<w, k + 1>>].pipe = "w"
                   /\ futs'[<<w, k + 2>>].pipe = "r"
                   /\ cur_stage'[w] = k + 3]_vars

\* C38 witness: the predicate of a stage that asks for a pipe returned False and
\* the next stage runs by itself, without a pipe end
C38_Witness ==
    \E w \in Items : \E k \in 0 .. NumStages - 2 :
        /\ pipes[k]
        /\ predAns[<<w, k>>] = "false"
        /\ futs[<<w, k>>].st = "none"
        /\ futs[<<w, k + 1>>].st = "running"
        /\ futs[<<w, k + 1>>].pipe = "none"
        /\ cur_stage[w] = k + 2

\* the step in which _pl_worker attends to w, nothing of w running, and goes on
Attended(w) ==
    /\ plPc = "attend"
    /\ w \in wi_needing_attention
    /\ w \notin wi_needing_attention'
    /\ ~is_wi_still_running(running_wi_contexts, w)

\* attending to w finalizes it with failure list excs: its user Future gets w as
\* its result and its entry leaves _wi_to_wifut; no predicate is asked and
\* nothing is submitted
FinalizedAtOnce(w, excs) ==
    /\ NewlySubmitted(w) = {}
    /\ \A s \in Stages : predAns'[<<w, s>>] = predAns[<<w, s>>]
    /\ faults' = faults
    /\ exceptions'[w] = excs
    /\ TableGet(wi_to_wifut, w) # NoFut
    /\ wifuts[TableGet(wi_to_wifut, w)].st = "pending"
    /\ wifuts'[TableGet(wi_to_wifut, w)].st = "result"
    /\ wifuts'[TableGet(wi_to_wifut, w)].excs = excs
    /\ TableGet(wi_to_wifut', w) = NoFut

OutOfRange(k) == k < 0 \/ k > NumStages

VisiblePayload(sr) == sr.objects[sr.wi.user_obj]

\* C40, as the specification states it: the worker has a copy, and while the
\* stage runs the caller-visible item's payload, failure list and pipe end are
\* not changed by it.
C40_CallerVisibleItemUnchanged ==
    /\ [](stage_run.pc = "running" => stage_run.arg.inst # stage_run.wi.inst)
    /\ [][(stage_run.pc = "running" /\ stage_run'.pc = "running") =>
             /\ VisiblePayload(stage_run') = VisiblePayload(stage_run)
             /\ stage_run'.wi.exceptions = stage_run.wi.exceptions
             /\ stage_run'.wi.pipe_conn = stage_run.wi.pipe_conn]_vars

\* C40: the item a stage worker has is another instance than the caller-visible
\* one; when it is submitted it has the caller-visible item's stage index,
\* failure list and payload (what its payload object holds) and, as its
\* pipe_conn, the pipe end _submit_to_stage was called with (None for a stage by
\* itself); while the stage runs no attribute of the caller-visible item is
\* assigned to; the worker of a subprocess stage has a payload object of its
\* own, that of a thread stage the caller-visible item's, and only what a
\* subprocess stage does leaves what the caller sees of the payload unchanged.
C40_WorkerHasItsOwnCopy ==
    /\ [](stage_run.pc = "running" =>
             /\ stage_run.arg.inst # stage_run.wi.inst
             /\ stage_run.wi = stage_run.given)
    /\ [][(stage_run.pc = "new" /\ stage_run'.pc = "running") =>
             /\ stage_run'.arg.pipe_conn = stage_run.conn
             /\ stage_run'.arg.cur_stage = stage_run.wi.cur_stage
             /\ stage_run'.objects[stage_run'.arg.user_obj] = VisiblePayload(stage_run)
             /\ stage_run'.arg.exceptions = stage_run.wi.exceptions
             /\ stage_run'.arg.user_obj = stage_run.wi.user_obj <=> ~stage_run.subprocess
             /\ stage_run'.wi = stage_run.wi
             /\ VisiblePayload(stage_run') = VisiblePayload(stage_run)]_vars
    /\ [][(stage_run.pc = "running" /\ stage_run'.pc = "running" /\ stage_run.subprocess) =>
             VisiblePayload(stage_run') = VisiblePayload(stage_run)]_vars

\* C40 witness: the worker of a thread stage, given the write end, has appended
\* a failure and dropped the pipe end on its item, of which the caller-visible
\* item has nothing, and changed the payload object, which the caller-visible
\* item has too
C40_Witness ==
    /\ stage_run.pc = "running"
    /\ ~stage_run.subprocess
    /\ stage_run.conn = "w"
    /\ stage_run.arg.exceptions # <<>>
    /\ stage_run.arg.pipe_conn = "none"
    /\ stage_run.wi = stage_run.given
    /\ stage_run.arg.user_obj = stage_run.wi.user_obj
    /\ stage_run.objects[1] = 2
    /\ stage_run.objects[2] = 0 /\ stage_run.objects[3] = 0

====
